---- MODULE Spec2Model ----
(***************************************************************************)
(* Model of the tag-media data layer: the four registries BasePaths,       *)
(* TagCategories, Tags and Media over the five tables of                   *)
(* src/src/database/schema.rs.                                             *)
(*                                                                         *)
(* Strings are sequences of one-character strings, so that trimming,       *)
(* slash stripping and prefix tests are computed as the code computes      *)
(* them.  Option<T> is <<>> for None and <<v>> for Some(v).  A call's      *)
(* result is [ok |-> TRUE, val |-> v] or [ok |-> FALSE, val |-> e] where e *)
(* is the error as a tuple of variant names, outermost first.              *)
(***************************************************************************)
EXTENDS Integers, Sequences, FiniteSets, TLC

VARIABLES base_paths, tag_categories, tags, media, media_tags, call, result,
          inflight

tables == <<base_paths, tag_categories, tags, media, media_tags>>
vars == <<base_paths, tag_categories, tags, media, media_tags, call, result, inflight>>

----------------------------------------------------------------------------
(* Field names of results, calls and rows.  The rows carry the columns of  *)
(* src/src/database/schema.rs under the names of the structs in            *)
(* src/src/data; every record below lists its fields in this order.        *)

FieldNames ==
    [ok |-> "result", val |-> "result", op |-> "call", args |-> "call",
     id |-> "every table", relative_path |-> "media", base_path |-> "base_paths",
     base_path_id |-> "media", width |-> "media", height |-> "media",
     size |-> "media", mark |-> "media", name |-> "tag_categories, tags",
     category_id |-> "tags", color |-> "tag_categories",
     description |-> "base_paths, tag_categories, tags, media",
     media_type |-> "media", media_id |-> "media_tags", tag_id |-> "media_tags",
     tag_ids |-> "the tag ids a call has read", img_ids |-> "the media ids a call has read"]

----------------------------------------------------------------------------
(* Values *)

None == <<>>
Some(v) == <<v>>

Ok(v) == [ok |-> TRUE, val |-> v]
Err(e) == [ok |-> FALSE, val |-> e]
Unit == <<>>

\* an f64 value: a number n, written F64(n), or the NaN, which is no number;
\* the numbers of the model are integers
F64(n) == <<n>>
NaN == <<>>

\* `x <= 0.0` on an f64: a comparison with NaN is false
F64LeZero(x) == x # NaN /\ x[1] <= 0

\* the two callers that use the registries at the same time; every call
\* opens its own connection for each statement and no call runs in a
\* transaction.  A call that runs more than one statement is one step for
\* each statement: Begin runs the first on the store as it is then, every
\* later step runs the next on the store as it is then, and the step whose
\* statement fails a check of the call returns the error.  The code between
\* two statements reads nothing of the store and belongs to the step of the
\* statement it leads to.  The write fails on no uniqueness constraint
\* (no registry relies on one) and on no reference: connection.rs opens the
\* connection without `PRAGMA foreign_keys`, so that SQLite does not enforce
\* the references that the joinable! lines of schema.rs name.  It fails on a
\* NaN, which SQLite binds as NULL, in a column that is not Nullable of a
\* row that it writes.  Calls that follow one another are the calls of
\* caller 1, which begins a call when its last has returned.
Callers == {1, 2}

\* what a caller is doing: nothing, or a call between two of its statements,
\* with what it has read or computed for the statements to come.  op names
\* the call when the next statement is its last, the write of a call that
\* writes, and the call and the next statement, as in
\* "Tags.create/already_exists", before that
Idle == [val |-> <<>>, op |-> "idle", args |-> <<>>]
Pending(op, args, val) == [val |-> val, op |-> op, args |-> args]

MAX_DESCRIPTION_LENGTH == 300
MAX_NAME_LENGTH == 50

----------------------------------------------------------------------------
(* Characters.  A character is written as the TLA+ string of it where TLA+ *)
(* has one (the printable ASCII characters but the grave accent, and "\t", *)
(* "\n", "\f", "\r") and as "U+XXXX", its code point, otherwise.  The       *)
(* alphabet is ASCII without the other control characters, every character *)
(* with the Unicode property White_Space, the letters U+00C9 and U+00E9 (E *)
(* with acute, upper and lower case) and the combining mark U+0301.        *)

\* U+0020 .. U+007E in code point order, with U+0060 by its name
Printable ==
    <<" ", "!", "\"", "#", "$", "%", "&", "'", "(", ")", "*", "+", ",", "-", ".", "/",
      "0", "1", "2", "3", "4", "5", "6", "7", "8", "9", ":", ";", "<", "=", ">", "?",
      "@", "A", "B", "C", "D", "E", "F", "G", "H", "I", "J", "K", "L", "M", "N", "O",
      "P", "Q", "R", "S", "T", "U", "V", "W", "X", "Y", "Z", "[", "\\", "]", "^", "_",
      "U+0060", "a", "b", "c", "d", "e", "f", "g", "h", "i", "j", "k", "l", "m", "n",
      "o", "p", "q", "r", "s", "t", "u", "v", "w", "x", "y", "z", "{", "|", "}", "~">>

\* the other characters of the alphabet with their code points
Named ==
    <<<<"\t", 9>>, <<"\n", 10>>, <<"U+000B", 11>>, <<"\f", 12>>, <<"\r", 13>>,
      <<"U+0085", 133>>, <<"U+00A0", 160>>, <<"U+00C9", 201>>, <<"U+00E9", 233>>,
      <<"U+0301", 769>>, <<"U+1680", 5760>>,
      <<"U+2000", 8192>>, <<"U+2001", 8193>>, <<"U+2002", 8194>>, <<"U+2003", 8195>>,
      <<"U+2004", 8196>>, <<"U+2005", 8197>>, <<"U+2006", 8198>>, <<"U+2007", 8199>>,
      <<"U+2008", 8200>>, <<"U+2009", 8201>>, <<"U+200A", 8202>>,
      <<"U+2028", 8232>>, <<"U+2029", 8233>>, <<"U+202F", 8239>>, <<"U+205F", 8287>>,
      <<"U+3000", 12288>>>>

\* the alphabet
Chars ==
    {Printable[i] : i \in 1..Len(Printable)} \cup {Named[i][1] : i \in 1..Len(Named)}

\* the code point of every character of the alphabet
CodePoints ==
    [c \in Chars |->
        IF \E i \in 1..Len(Printable) : Printable[i] = c
        THEN 31 + (CHOOSE i \in 1..Len(Printable) : Printable[i] = c)
        ELSE Named[CHOOSE i \in 1..Len(Named) : Named[i][1] = c][2]]

\* char as u32
CodePoint(c) == CodePoints[c]

\* char::len_utf8
LenUtf8(c) ==
    LET code == CodePoint(c)
    IN  IF code < 128 THEN 1 ELSE IF code < 2048 THEN 2 ELSE 3

\* the characters of the alphabet that take two bytes or more, and three
\* bytes, in UTF-8
Wide2 == {c \in Chars : LenUtf8(c) >= 2}
Wide3 == {c \in Chars : LenUtf8(c) = 3}

\* str::len: the length in bytes of the UTF-8 encoding
ByteLen(s) ==
    LET wide == {i \in 1..Len(s) : s[i] \in Wide2}
    IN  Len(s) + Cardinality(wide) + Cardinality({i \in wide : s[i] \in Wide3})

\* char::is_whitespace: the characters with the property White_Space
WhiteSpace ==
    {"\t", "\n", "U+000B", "\f", "\r", " ", "U+0085", "U+00A0", "U+1680",
     "U+2000", "U+2001", "U+2002", "U+2003", "U+2004", "U+2005", "U+2006",
     "U+2007", "U+2008", "U+2009", "U+200A", "U+2028", "U+2029", "U+202F",
     "U+205F", "U+3000"}

----------------------------------------------------------------------------
(* str helpers of the Rust standard library, on sequences of characters *)

RECURSIVE TrimStartSet(_, _)
TrimStartSet(s, cs) ==
    IF s # <<>> /\ Head(s) \in cs THEN TrimStartSet(Tail(s), cs) ELSE s

RECURSIVE TrimEndSet(_, _)
TrimEndSet(s, cs) ==
    IF s # <<>> /\ s[Len(s)] \in cs
    THEN TrimEndSet(SubSeq(s, 1, Len(s) - 1), cs)
    ELSE s

\* str::trim
Trim(s) == TrimEndSet(TrimStartSet(s, WhiteSpace), WhiteSpace)

\* str::trim_end_matches(c)
TrimEndMatches(s, c) == TrimEndSet(s, {c})

\* str::trim_matches(c)
TrimMatches(s, c) == TrimEndSet(TrimStartSet(s, {c}), {c})

\* str::starts_with
StartsWith(s, p) == Len(p) <= Len(s) /\ SubSeq(s, 1, Len(p)) = p

\* Grapheme_Cluster_Break of a character of the alphabet: U+0085, U+2028,
\* U+2029 and the ASCII control characters other than CR and LF are Control,
\* U+0301 is Extend, every other character is Other
GraphemeClusterBreak(c) ==
    IF c = "\r" THEN "CR"
    ELSE IF c = "\n" THEN "LF"
    ELSE IF c \in {"\t", "U+000B", "\f", "U+0085", "U+2028", "U+2029"} THEN "Control"
    ELSE IF c = "U+0301" THEN "Extend"
    ELSE "Other"

\* there is a boundary of extended grapheme clusters between a and b, by the
\* rules of UAX #29 that apply to the classes above: none inside CR LF
\* (GB3), one after and before a control character (GB4, GB5), none before
\* an Extend character (GB9), one everywhere else (GB999)
GraphemeBoundary(a, b) ==
    LET ca == GraphemeClusterBreak(a)
        cb == GraphemeClusterBreak(b)
    IN  IF ca = "CR" /\ cb = "LF" THEN FALSE
        ELSE IF ca \in {"CR", "LF", "Control"} THEN TRUE
        ELSE IF cb \in {"CR", "LF", "Control"} THEN TRUE
        ELSE cb # "Extend"

\* graphemes(true).count(): the number of extended grapheme clusters, one
\* for every character but those that follow no boundary, which only a
\* line feed and an Extend character can be
GraphemeCount(s) ==
    Len(s) - Cardinality({i \in 2..Len(s) :
                            /\ s[i] \in {"\n", "U+0301"}
                            /\ ~GraphemeBoundary(s[i - 1], s[i])})

----------------------------------------------------------------------------
(* Storage engine: rows are records, a table is the set of its rows *)

Ids(table) == {r.id : r \in table}

Max(S) == CHOOSE x \in S : \A y \in S : y <= x

\* id assigned on insert: SQLite rowid, one more than the largest id in use
NextId(table) == IF table = {} THEN 1 ELSE Max(Ids(table)) + 1

\* ORDER BY id ASC
RECURSIVE OrderById(_)
OrderById(table) ==
    IF table = {} THEN <<>>
    ELSE LET first == CHOOSE r \in table : \A q \in table : r.id <= q.id
         IN  <<first>> \o OrderById(table \ {first})

----------------------------------------------------------------------------
(* Filesystem seen by std::path::Path (the environment of BasePaths.create). *)
(* A node is the sequence of the names from the root down to it; the root   *)
(* is the empty sequence.  There are no symbolic links.                     *)

FsDirs ==
    {<<>>, <<<<"a">>>>, <<<<"a">>, <<"b">>>>, <<<<"c">>>>,
     <<<<"w">>>>, <<<<"w">>, <<"r">>>>}
FsFiles == {<<<<"f">>>>}

\* the working directory of the process
Cwd == <<<<"w">>>>

\* paths of directories, of a regular file, of nothing, and a relative path
\* of a directory
P_a == <<"/", "a">>
P_ab == <<"/", "a", "/", "b">>
P_c == <<"/", "c">>
P_file == <<"/", "f">>
P_missing == <<"/", "x">>
P_rel == <<"r">>

\* the names between the '/' of a path, empty ones included
RECURSIVE SplitPath(_)
SplitPath(p) ==
    IF \A i \in 1..Len(p) : p[i] # "/" THEN <<p>>
    ELSE LET k == CHOOSE i \in 1..Len(p) : p[i] = "/" /\ \A j \in 1..(i - 1) : p[j] # "/"
         IN  <<SubSeq(p, 1, k - 1)>> \o SplitPath(SubSeq(p, k + 1, Len(p)))

\* no node: the lookup failed (ENOENT, ENOTDIR)
NoNode == <<<<>>>>

\* path resolution from a node along names: a name is looked up in a
\* directory only; an empty name and "." stay, ".." goes to the parent
RECURSIVE Walk(_, _)
Walk(node, names) ==
    IF names = <<>> THEN node
    ELSE IF node \notin FsDirs THEN NoNode
    ELSE LET x == Head(names)
         IN  IF x = <<>> \/ x = <<".">> THEN Walk(node, Tail(names))
             ELSE IF x = <<".", ".">>
             THEN Walk(IF node = <<>> THEN node ELSE SubSeq(node, 1, Len(node) - 1),
                       Tail(names))
             ELSE IF node \o <<x>> \in FsDirs \cup FsFiles
             THEN Walk(node \o <<x>>, Tail(names))
             ELSE NoNode

\* the node that stat(2) finds for a path: from the root for a path that
\* starts with '/', from the working directory otherwise; the empty path
\* names nothing
Resolve(p) ==
    IF p = <<>> THEN NoNode
    ELSE Walk(IF Head(p) = "/" THEN <<>> ELSE Cwd, SplitPath(p))

\* Path::exists
PathExists(p) == Resolve(p) \in FsDirs \cup FsFiles

\* Path::is_dir
PathIsDir(p) == Resolve(p) \in FsDirs

\* Path::is_absolute
PathIsAbsolute(p) == p # <<>> /\ Head(p) = "/"

----------------------------------------------------------------------------
(* MediaType <-> stored string, src/src/data/media_file.rs *)

MediaTypes == {"Unknown", "Image", "Video", "Sound"}

\* Into<MediaType> for String without the "sound" arm
StringToMediaTypeNoSound(s) ==
    CASE s = "image" -> "Image"
      [] s = "video" -> "Video"
      [] OTHER -> "Unknown"

\* impl Into<MediaType> for String
StringToMediaType(s) ==
    CASE s = "image" -> "Image"
      [] s = "video" -> "Video"
      [] s = "sound" -> "Sound"
      [] OTHER -> "Unknown"

\* impl From<MediaType> for String
MediaTypeToString(t) ==
    CASE t = "Image" -> "image"
      [] t = "Video" -> "video"
      [] t = "Sound" -> "sound"
      [] OTHER -> ""

\* Queryable: a stored media row loaded as a MediaFile
LoadMediaFile(row) == [row EXCEPT !.media_type = StringToMediaType(row.media_type)]

\* Insertable / AsChangeset: media_type is serialized as String
StoreMediaFile(m) == [m EXCEPT !.media_type = MediaTypeToString(m.media_type)]

----------------------------------------------------------------------------
(* BasePaths, src/src/media/base_paths.rs *)

\* BasePaths::get
BasePathsGet(id) ==
    IF id <= 0 THEN Err(<<"InvalidID">>)
    ELSE IF \E r \in base_paths : r.id = id
         THEN Ok(CHOOSE r \in base_paths : r.id = id)
         ELSE Err(<<"NotFound">>)

\* BasePaths::list that filters whenever ids is Some, the empty one included
BasePathsListStrict(ids) ==
    IF ids = None
    THEN OrderById(base_paths)
    ELSE OrderById({r \in base_paths : \E i \in 1..Len(ids[1]) : ids[1][i] = r.id})

\* BasePaths::list: ids is None or a sequence of ids
BasePathsList(ids) ==
    LET bp_ids == IF ids = None THEN <<>> ELSE ids[1]
    IN  IF Len(bp_ids) = 0
        THEN OrderById(base_paths)
        ELSE OrderById({r \in base_paths : \E i \in 1..Len(bp_ids) : bp_ids[i] = r.id})

\* ScanBasePaths with the two tests of the loop body in the other order
RECURSIVE ScanBasePathsPrefixFirst(_, _)
ScanBasePathsPrefixFirst(list, bp) ==
    IF list = <<>> THEN Ok(Unit)
    ELSE IF StartsWith(bp, Head(list).base_path) THEN Err(<<"IsSubPath">>)
    ELSE IF Head(list).base_path = bp THEN Err(<<"AlreadyExists">>)
    ELSE ScanBasePathsPrefixFirst(Tail(list), bp)

\* the loop of BasePaths::create over the registered base paths, in list order
RECURSIVE ScanBasePaths(_, _)
ScanBasePaths(list, bp) ==
    IF list = <<>> THEN Ok(Unit)
    ELSE IF Head(list).base_path = bp THEN Err(<<"AlreadyExists">>)
    ELSE IF StartsWith(bp, Head(list).base_path) THEN Err(<<"IsSubPath">>)
    ELSE ScanBasePaths(Tail(list), bp)

\* the checks of BasePaths::create with the filesystem checks ahead of the
\* description check
BasePathsCreateCheckFsFirst(bp, desc) ==
    IF ByteLen(bp) = 0 THEN Err(<<"InvalidPath">>)
    ELSE IF ~PathExists(bp) THEN Err(<<"NotExists">>)
    ELSE IF ~PathIsDir(bp) THEN Err(<<"NotADirectory">>)
    ELSE IF ~PathIsAbsolute(bp) THEN Err(<<"NotAbsolute">>)
    ELSE IF GraphemeCount(desc) > MAX_DESCRIPTION_LENGTH THEN Err(<<"DescriptionTooLong">>)
    ELSE ScanBasePaths(BasePathsList(None), bp)

\* the checks of BasePaths::create on the normalized input, in code order
BasePathsCreateCheck(bp, desc) ==
    IF ByteLen(bp) = 0 THEN Err(<<"InvalidPath">>)
    ELSE IF GraphemeCount(desc) > MAX_DESCRIPTION_LENGTH THEN Err(<<"DescriptionTooLong">>)
    ELSE IF ~PathExists(bp) THEN Err(<<"NotExists">>)
    ELSE IF ~PathIsDir(bp) THEN Err(<<"NotADirectory">>)
    ELSE IF ~PathIsAbsolute(bp) THEN Err(<<"NotAbsolute">>)
    ELSE ScanBasePaths(BasePathsList(None), bp)

\* base_path.as_ref().trim().trim_end_matches('/')
NormalizePath(base_path) == TrimEndMatches(Trim(base_path), "/")

\* BasePaths::create up to the end of its scan
BasePathsCreateBegin(c, base_path, description) ==
    LET bp == NormalizePath(base_path)
        desc == Trim(description)
        chk == BasePathsCreateCheck(bp, desc)
    IN  /\ inflight[c] = Idle
        /\ IF chk.ok
           THEN /\ inflight' = [inflight EXCEPT ![c] =
                      Pending("BasePaths.create", <<base_path, description>>,
                              [id |-> 0, base_path |-> bp, description |-> desc])]
                /\ UNCHANGED <<call, result>>
           ELSE /\ call' = [op |-> "BasePaths.create", args |-> <<base_path, description>>]
                /\ result' = chk
                /\ UNCHANGED inflight
        /\ UNCHANGED tables

\* the insert_into(base_paths) of BasePaths::create
BasePathsCreateInsert(c) ==
    LET row == [inflight[c].val EXCEPT !.id = NextId(base_paths)]
    IN  /\ inflight[c].op = "BasePaths.create"
        /\ base_paths' = base_paths \cup {row}
        /\ call' = [op |-> "BasePaths.create", args |-> inflight[c].args]
        /\ result' = Ok(row)
        /\ inflight' = [inflight EXCEPT ![c] = Idle]
        /\ UNCHANGED <<tag_categories, tags, media, media_tags>>

\* BasePaths::list
BasePathsListCall(ids) ==
    /\ call' = [op |-> "BasePaths.list", args |-> <<ids>>]
    /\ result' = Ok(BasePathsList(ids))
    /\ UNCHANGED <<tables, inflight>>

\* BasePaths::update_description up to the end of its length check
BasePathsUpdateDescriptionBegin(c, id, new_description) ==
    LET got == BasePathsGet(id)
        new_desc == Trim(new_description)
        long == ByteLen(new_desc) > MAX_DESCRIPTION_LENGTH
    IN  /\ inflight[c] = Idle
        /\ IF got.ok /\ ~long
           THEN /\ inflight' = [inflight EXCEPT ![c] =
                      Pending("BasePaths.update_description", <<id, new_description>>,
                              [id |-> id, description |-> new_desc])]
                /\ UNCHANGED <<call, result>>
           ELSE /\ call' = [op |-> "BasePaths.update_description",
                            args |-> <<id, new_description>>]
                /\ result' = IF ~got.ok THEN got ELSE Err(<<"DescriptionTooLong">>)
                /\ UNCHANGED inflight
        /\ UNCHANGED tables

\* the diesel::update of BasePaths::update_description
BasePathsUpdateDescriptionFinish(c) ==
    LET data == inflight[c].val
    IN  /\ inflight[c].op = "BasePaths.update_description"
        /\ base_paths' = {IF r.id = data.id THEN [r EXCEPT !.description = data.description]
                          ELSE r : r \in base_paths}
        /\ call' = [op |-> "BasePaths.update_description", args |-> inflight[c].args]
        /\ result' = Ok(Unit)
        /\ inflight' = [inflight EXCEPT ![c] = Idle]
        /\ UNCHANGED <<tag_categories, tags, media, media_tags>>

\* a count that returns the number of matching rows
CountStar(rows) == Cardinality(rows)

\* `.count().execute(conn)` in BasePaths::delete and Media::delete: execute
\* returns the number of rows changed on the connection (sqlite3_changes),
\* which a SELECT on a connection opened for it leaves at 0; the COUNT(*)
\* value of the matching rows is never loaded
CountExecute(rows) == 0

\* BasePaths::delete up to the end of its count of the media files
BasePathsDeleteBegin(c, id) ==
    LET got == BasePathsGet(id)
        vals == CountExecute({m \in media : m.base_path_id = id})
    IN  /\ inflight[c] = Idle
        /\ IF got.ok /\ vals = 0
           THEN /\ inflight' = [inflight EXCEPT ![c] =
                      Pending("BasePaths.delete", <<id>>, [id |-> id])]
                /\ UNCHANGED <<call, result>>
           ELSE /\ call' = [op |-> "BasePaths.delete", args |-> <<id>>]
                /\ result' = IF ~got.ok THEN got ELSE Err(<<"InUse">>)
                /\ UNCHANGED inflight
        /\ UNCHANGED tables

\* BasePathsDeleteFinish with the count of the media files repeated in the
\* same statement as the delete
BasePathsDeleteFinishChecked(c) ==
    LET used == \E m \in media : m.base_path_id = inflight[c].val.id
    IN  /\ inflight[c].op = "BasePaths.delete"
        /\ base_paths' = IF used THEN base_paths
                         ELSE {r \in base_paths : r.id # inflight[c].val.id}
        /\ call' = [op |-> "BasePaths.delete", args |-> inflight[c].args]
        /\ result' = IF used THEN Err(<<"InUse">>) ELSE Ok(Unit)
        /\ inflight' = [inflight EXCEPT ![c] = Idle]
        /\ UNCHANGED <<tag_categories, tags, media, media_tags>>

\* the diesel::delete of BasePaths::delete
BasePathsDeleteFinish(c) ==
    /\ inflight[c].op = "BasePaths.delete"
    /\ base_paths' = {r \in base_paths : r.id # inflight[c].val.id}
    /\ call' = [op |-> "BasePaths.delete", args |-> inflight[c].args]
    /\ result' = Ok(Unit)
    /\ inflight' = [inflight EXCEPT ![c] = Idle]
    /\ UNCHANGED <<tag_categories, tags, media, media_tags>>

----------------------------------------------------------------------------
(* TagCategories, src/src/tags/category.rs *)

\* TagCategories::list: ids is None or a sequence of ids
TagCategoriesList(ids) ==
    LET tc_ids == IF ids = None THEN <<>> ELSE ids[1]
    IN  IF Len(tc_ids) = 0
        THEN OrderById(tag_categories)
        ELSE OrderById({r \in tag_categories : \E i \in 1..Len(tc_ids) : tc_ids[i] = r.id})

\* TagCategories::list
TagCategoriesListCall(ids) ==
    /\ call' = [op |-> "TagCategories.list", args |-> <<ids>>]
    /\ result' = Ok(TagCategoriesList(ids))
    /\ UNCHANGED <<tables, inflight>>

\* TagCategories::get
TagCategoriesGet(id) ==
    IF id <= 0 THEN Err(<<"InvalidID">>)
    ELSE IF \E r \in tag_categories : r.id = id
         THEN Ok(CHOOSE r \in tag_categories : r.id = id)
         ELSE Err(<<"NotFound">>)

\* str::to_ascii_lowercase
UpperCase == <<"A", "B", "C", "D", "E", "F", "G", "H", "I", "J", "K", "L", "M",
               "N", "O", "P", "Q", "R", "S", "T", "U", "V", "W", "X", "Y", "Z">>
LowerCase == <<"a", "b", "c", "d", "e", "f", "g", "h", "i", "j", "k", "l", "m",
               "n", "o", "p", "q", "r", "s", "t", "u", "v", "w", "x", "y", "z">>
CharToAsciiLowercase(c) ==
    IF \E i \in 1..Len(UpperCase) : UpperCase[i] = c
    THEN LowerCase[CHOOSE i \in 1..Len(UpperCase) : UpperCase[i] = c]
    ELSE c
ToAsciiLowercase(s) == [i \in 1..Len(s) |-> CharToAsciiLowercase(s[i])]

\* str::to_lowercase: on the alphabet, the ASCII letters and U+00C9
CharToLowercase(c) == IF c = "U+00C9" THEN "U+00E9" ELSE CharToAsciiLowercase(c)
ToLowercase(s) == [i \in 1..Len(s) |-> CharToLowercase(s[i])]

\* u8::from_str_radix(h, 16) of a slice of two bytes succeeds: two
\* hexadecimal digits, or a '+' sign and one hexadecimal digit
HexDigits ==
    {"0", "1", "2", "3", "4", "5", "6", "7", "8", "9",
     "a", "b", "c", "d", "e", "f", "A", "B", "C", "D", "E", "F"}
HexDec(h) == /\ Len(h) = 2
             /\ h[2] \in HexDigits
             /\ h[1] \in HexDigits \cup {"+"}

\* str::as_bytes: the bytes of the UTF-8 encoding, the first byte of a
\* character written as the character and each later one as "cont"
RECURSIVE AsBytes(_)
AsBytes(s) ==
    IF s = <<>> THEN <<>>
    ELSE <<Head(s)>> \o [i \in 1..(LenUtf8(Head(s)) - 1) |-> "cont"] \o AsBytes(Tail(s))

\* str::is_char_boundary(n) on the bytes: byte offset n is the start of a
\* character or the end of the string
IsCharBoundary(bytes, n) == n = Len(bytes) \/ (n < Len(bytes) /\ bytes[n + 1] # "cont")

\* the channels of raster::Color::hex from byte offset a on, in order: a
\* slice &hex[a..a + 2] that is cut inside a character panics, a slice
\* that is no hexadecimal number is InvalidHex
RECURSIVE ColorChannels(_, _)
ColorChannels(bytes, a) ==
    IF a >= Len(bytes) THEN "Ok"
    ELSE IF ~(IsCharBoundary(bytes, a) /\ IsCharBoundary(bytes, a + 2)) THEN "panic"
    ELSE IF ~HexDec(SubSeq(bytes, a + 1, a + 2)) THEN "InvalidHex"
    ELSE ColorChannels(bytes, a + 2)

\* raster::Color::hex(s): "Ok" for "#rrggbb" and "#rrggbbaa"
ColorHex(s) ==
    IF ByteLen(s) \in {7, 9} /\ Head(s) = "#"
    THEN ColorChannels(AsBytes(s), 1)
    ELSE "InvalidHex"

\* a call that does not return: its thread unwinds from a panic
Panic == Err(<<"panic">>)

\* Category::validate
CategoryValidate(c) ==
    IF ByteLen(c.name) = 0 THEN Err(<<"InvalidName">>)
    ELSE IF GraphemeCount(c.name) > MAX_NAME_LENGTH THEN Err(<<"NameTooLong">>)
    ELSE IF GraphemeCount(c.description) > MAX_DESCRIPTION_LENGTH
         THEN Err(<<"DescriptionTooLong">>)
    ELSE IF ColorHex(c.color) = "panic" THEN Panic
    ELSE IF ColorHex(c.color) # "Ok" THEN Err(<<"InvalidColor">>)
    ELSE Ok(c)

\* Category::clean
CategoryClean(c) ==
    [c EXCEPT !.name = Trim(c.name),
              !.color = ToAsciiLowercase(c.color),
              !.description = Trim(c.description)]

\* Category::with_new_data
CategoryWithNewData(c, new_data) ==
    [c EXCEPT !.name = IF new_data.name = None THEN @ ELSE new_data.name[1],
              !.color = IF new_data.color = None THEN @ ELSE new_data.color[1],
              !.description = IF new_data.description = None THEN @
                              ELSE new_data.description[1]]

\* TagCategories::update up to the end of its validation
TagCategoriesUpdateBegin(c, id, new_data) ==
    LET got == TagCategoriesGet(id)
        v == CategoryValidate(CategoryClean(CategoryWithNewData(got.val, new_data)))
    IN  /\ inflight[c] = Idle
        /\ IF got.ok /\ v.ok
           THEN /\ inflight' = [inflight EXCEPT ![c] =
                      Pending("TagCategories.update", <<id, new_data>>, v.val)]
                /\ UNCHANGED <<call, result>>
           ELSE /\ call' = [op |-> "TagCategories.update", args |-> <<id, new_data>>]
                /\ result' = IF ~got.ok THEN got ELSE v
                /\ UNCHANGED inflight
        /\ UNCHANGED tables

\* the diesel::update of TagCategories::update: the merged record is
\* written to the row of its id
TagCategoriesUpdateFinish(c) ==
    LET data == inflight[c].val
    IN  /\ inflight[c].op = "TagCategories.update"
        /\ tag_categories' = {IF r.id = data.id
                              THEN [r EXCEPT !.name = data.name,
                                             !.color = data.color,
                                             !.description = data.description]
                              ELSE r : r \in tag_categories}
        /\ call' = [op |-> "TagCategories.update", args |-> inflight[c].args]
        /\ result' = Ok(Unit)
        /\ inflight' = [inflight EXCEPT ![c] = Idle]
        /\ UNCHANGED <<base_paths, tags, media, media_tags>>

\* TagCategories::search_by_name as a function of its input
TagCategoriesSearchByName(name) ==
    LET Matches(category) ==
            StartsWith(ToLowercase(category.name), ToLowercase(name))
    IN  IF GraphemeCount(name) < 3 THEN Err(<<"NameToSearchTooShort">>)
        ELSE Ok(SelectSeq(TagCategoriesList(None), Matches))

\* TagCategories::search_by_name
TagCategoriesSearchByNameCall(name) ==
    /\ call' = [op |-> "TagCategories.search_by_name", args |-> <<name>>]
    /\ result' = TagCategoriesSearchByName(name)
    /\ UNCHANGED <<tables, inflight>>

\* TagCategories::delete up to the end of its get
TagCategoriesDeleteBegin(c, id) ==
    LET got == TagCategoriesGet(id)
    IN  /\ inflight[c] = Idle
        /\ IF got.ok
           THEN /\ inflight' = [inflight EXCEPT ![c] =
                      Pending("TagCategories.delete", <<id>>, [id |-> id])]
                /\ UNCHANGED <<call, result>>
           ELSE /\ call' = [op |-> "TagCategories.delete", args |-> <<id>>]
                /\ result' = got
                /\ UNCHANGED inflight
        /\ UNCHANGED tables

\* the diesel::delete of TagCategories::delete with the tags of the category
\* deleted in the same statement
TagCategoriesDeleteCascade(c) ==
    /\ inflight[c].op = "TagCategories.delete"
    /\ tag_categories' = {r \in tag_categories : r.id # inflight[c].val.id}
    /\ tags' = {t \in tags : t.category_id # inflight[c].val.id}
    /\ call' = [op |-> "TagCategories.delete", args |-> inflight[c].args]
    /\ result' = Ok(Unit)
    /\ inflight' = [inflight EXCEPT ![c] = Idle]
    /\ UNCHANGED <<base_paths, media, media_tags>>

\* the diesel::delete of TagCategories::delete
TagCategoriesDeleteFinish(c) ==
    /\ inflight[c].op = "TagCategories.delete"
    /\ tag_categories' = {r \in tag_categories : r.id # inflight[c].val.id}
    /\ call' = [op |-> "TagCategories.delete", args |-> inflight[c].args]
    /\ result' = Ok(Unit)
    /\ inflight' = [inflight EXCEPT ![c] = Idle]
    /\ UNCHANGED <<base_paths, tags, media, media_tags>>

----------------------------------------------------------------------------
(* Tags, src/src/tags/tags.rs *)

\* Tag::validate
TagValidate(t) ==
    IF t.category_id <= 0 THEN Err(<<"InvalidCategoryID">>)
    ELSE IF ~TagCategoriesGet(t.category_id).ok
         THEN Err(<<"CategoryError">> \o TagCategoriesGet(t.category_id).val)
    ELSE IF ByteLen(t.name) = 0 THEN Err(<<"InvalidName">>)
    ELSE IF ByteLen(t.name) > MAX_NAME_LENGTH THEN Err(<<"NameTooLong">>)
    ELSE IF ByteLen(t.description) > MAX_DESCRIPTION_LENGTH
         THEN Err(<<"DescriptionTooLong">>)
    ELSE Ok(t)

\* Tag::clean
TagClean(t) == [t EXCEPT !.name = Trim(t.name), !.description = Trim(t.description)]

\* Tag::with_new_data
TagWithNewData(t, new_data) ==
    [t EXCEPT !.name = IF new_data.name = None THEN @ ELSE new_data.name[1],
              !.category_id = IF new_data.category_id = None THEN @ ELSE new_data.category_id[1],
              !.description = IF new_data.description = None THEN @ ELSE new_data.description[1]]

\* CreateTag::into_tag
IntoTag(data) ==
    [id |-> 0, name |-> data.name, category_id |-> data.category_id,
     description |-> data.description]

\* TagsAlreadyExists without the query: no row is ever found
TagsNeverExists(name, category_id) == FALSE

\* Tags::already_exists
TagsAlreadyExists(name, category_id) ==
    \E r \in tags : r.name = name /\ r.category_id = category_id

\* Tags::get
TagsGet(id) ==
    IF id <= 0 THEN Err(<<"InvalidID">>)
    ELSE IF \E r \in tags : r.id = id
         THEN Ok(CHOOSE r \in tags : r.id = id)
         ELSE Err(<<"NotFound">>)

\* Tags::create up to the end of validate: the data is cleaned and the
\* category is looked up
TagsCreateBegin(c, data) ==
    LET v == TagValidate(TagClean(IntoTag(data)))
    IN  /\ inflight[c] = Idle
        /\ IF v.ok
           THEN /\ inflight' = [inflight EXCEPT ![c] =
                      Pending("Tags.create/already_exists", <<data>>, v.val)]
                /\ UNCHANGED <<call, result>>
           ELSE /\ call' = [op |-> "Tags.create", args |-> <<data>>]
                /\ result' = v
                /\ UNCHANGED inflight
        /\ UNCHANGED tables

\* TagsCreateAlreadyExists with the insert ahead of the query: a tag that
\* exists is inserted again before AlreadyExists is returned
TagsCreateInsertFirst(c) ==
    LET data == inflight[c].val
        row == [data EXCEPT !.id = NextId(tags)]
    IN  /\ inflight[c].op = "Tags.create/already_exists"
        /\ IF TagsAlreadyExists(data.name, data.category_id)
           THEN /\ call' = [op |-> "Tags.create", args |-> inflight[c].args]
                /\ result' = Err(<<"AlreadyExists">>)
                /\ tags' = tags \cup {row}
                /\ inflight' = [inflight EXCEPT ![c] = Idle]
           ELSE /\ inflight' = [inflight EXCEPT ![c] =
                      Pending("Tags.create", inflight[c].args, data)]
                /\ UNCHANGED <<call, result, tags>>
        /\ UNCHANGED <<base_paths, tag_categories, media, media_tags>>

\* the already_exists of Tags::create, on the tags stored when it runs
TagsCreateAlreadyExists(c) ==
    LET data == inflight[c].val
    IN  /\ inflight[c].op = "Tags.create/already_exists"
        /\ IF TagsAlreadyExists(data.name, data.category_id)
           THEN /\ call' = [op |-> "Tags.create", args |-> inflight[c].args]
                /\ result' = Err(<<"AlreadyExists">>)
                /\ inflight' = [inflight EXCEPT ![c] = Idle]
           ELSE /\ inflight' = [inflight EXCEPT ![c] =
                      Pending("Tags.create", inflight[c].args, data)]
                /\ UNCHANGED <<call, result>>
        /\ UNCHANGED tables

\* the insert_into(tags_table) of Tags::create
TagsCreateInsert(c) ==
    LET row == [inflight[c].val EXCEPT !.id = NextId(tags)]
    IN  /\ inflight[c].op = "Tags.create"
        /\ tags' = tags \cup {row}
        /\ call' = [op |-> "Tags.create", args |-> inflight[c].args]
        /\ result' = Ok(row)
        /\ inflight' = [inflight EXCEPT ![c] = Idle]
        /\ UNCHANGED <<base_paths, tag_categories, media, media_tags>>

\* Tags::update up to the end of its get: the row is read, merged with the
\* new data and cleaned
TagsUpdateBegin(c, id, new_data) ==
    LET got == TagsGet(id)
    IN  /\ inflight[c] = Idle
        /\ IF got.ok
           THEN /\ inflight' = [inflight EXCEPT ![c] =
                      Pending("Tags.update/validate", <<id, new_data>>,
                              TagClean(TagWithNewData(got.val, new_data)))]
                /\ UNCHANGED <<call, result>>
           ELSE /\ call' = [op |-> "Tags.update", args |-> <<id, new_data>>]
                /\ result' = got
                /\ UNCHANGED inflight
        /\ UNCHANGED tables

\* the validate of Tags::update, which looks the category up among the
\* categories stored when it runs
TagsUpdateValidate(c) ==
    LET v == TagValidate(inflight[c].val)
    IN  /\ inflight[c].op = "Tags.update/validate"
        /\ IF v.ok
           THEN /\ inflight' = [inflight EXCEPT ![c] =
                      Pending("Tags.update/already_exists", inflight[c].args, v.val)]
                /\ UNCHANGED <<call, result>>
           ELSE /\ call' = [op |-> "Tags.update", args |-> inflight[c].args]
                /\ result' = v
                /\ inflight' = [inflight EXCEPT ![c] = Idle]
        /\ UNCHANGED tables

\* the already_exists of Tags::update, on the tags stored when it runs
TagsUpdateAlreadyExists(c) ==
    LET data == inflight[c].val
    IN  /\ inflight[c].op = "Tags.update/already_exists"
        /\ IF TagsAlreadyExists(data.name, data.category_id)
           THEN /\ call' = [op |-> "Tags.update", args |-> inflight[c].args]
                /\ result' = Err(<<"AlreadyExists">>)
                /\ inflight' = [inflight EXCEPT ![c] = Idle]
           ELSE /\ inflight' = [inflight EXCEPT ![c] =
                      Pending("Tags.update", inflight[c].args, data)]
                /\ UNCHANGED <<call, result>>
        /\ UNCHANGED tables

\* the diesel::update of Tags::update: the merged record is written to the
\* row of its id
TagsUpdateFinish(c) ==
    LET data == inflight[c].val
    IN  /\ inflight[c].op = "Tags.update"
        /\ tags' = {IF r.id = data.id
                    THEN [r EXCEPT !.name = data.name,
                                   !.category_id = data.category_id,
                                   !.description = data.description]
                    ELSE r : r \in tags}
        /\ call' = [op |-> "Tags.update", args |-> inflight[c].args]
        /\ result' = Ok(Unit)
        /\ inflight' = [inflight EXCEPT ![c] = Idle]
        /\ UNCHANGED <<base_paths, tag_categories, media, media_tags>>

\* a < b under the collation BINARY of a TEXT column: memcmp of the UTF-8
\* encodings, which is the order of the code points
RECURSIVE StrLess(_, _)
StrLess(a, b) ==
    IF b = <<>> THEN FALSE
    ELSE IF a = <<>> THEN TRUE
    ELSE IF Head(a) # Head(b) THEN CodePoint(Head(a)) < CodePoint(Head(b))
    ELSE StrLess(Tail(a), Tail(b))

\* the orders in which `.order(name.asc()).load()` can return a set of rows:
\* ascending by name, rows of equal name in either order
OrderByName(rows) ==
    {s \in [1..Cardinality(rows) -> rows] :
        /\ \A r \in rows : \E i \in DOMAIN s : s[i] = r
        /\ \A i, j \in DOMAIN s : i < j => ~StrLess(s[j].name, s[i].name)}

\* the last statement of Tags::list without the category filter
TagsListLoadAll(category) ==
    {Ok(s) : s \in OrderByName(tags)}

\* the last statement of Tags::list, `query.order(name.asc()).load()`: the
\* results it can return, the query filtered by the category when there is
\* one
TagsListLoad(category) ==
    IF category = None THEN {Ok(s) : s \in OrderByName(tags)}
    ELSE {Ok(s) : s \in OrderByName({t \in tags : t.category_id = category[1]})}

\* the check of the category of Tags::list: <<>>, or the error it returns
TagsListCheck(category) ==
    IF category = None THEN <<>>
    ELSE IF category[1] <= 0 THEN <<"InvalidCategoryID">>
    ELSE LET got == TagCategoriesGet(category[1])
         IN  IF got.ok THEN <<>>
             ELSE IF got.val = <<"NotFound">> THEN <<"CategoryNotFound">>
             ELSE <<"CategoryError">> \o got.val

\* Tags::list as a function of its input, when nothing is written between
\* its statements: the results it can return
TagsList(category) ==
    IF TagsListCheck(category) # <<>> THEN {Err(TagsListCheck(category))}
    ELSE TagsListLoad(category)

\* Tags::list up to the end of the lookup of its category
TagsListBegin(c, category) ==
    /\ inflight[c] = Idle
    /\ IF TagsListCheck(category) = <<>>
       THEN /\ inflight' = [inflight EXCEPT ![c] =
                  Pending("Tags.list", <<category>>, [category |-> category])]
            /\ UNCHANGED <<call, result>>
       ELSE /\ call' = [op |-> "Tags.list", args |-> <<category>>]
            /\ result' = Err(TagsListCheck(category))
            /\ UNCHANGED inflight
    /\ UNCHANGED tables

\* the load of Tags::list, on the tags stored when it runs
TagsListFinish(c) ==
    /\ inflight[c].op = "Tags.list"
    /\ call' = [op |-> "Tags.list", args |-> inflight[c].args]
    /\ result' \in TagsListLoad(inflight[c].val.category)
    /\ inflight' = [inflight EXCEPT ![c] = Idle]
    /\ UNCHANGED tables

\* Tags::search_by_name as a function of its input: the results it can
\* return
TagsSearchByName(name) ==
    LET name_to_search == Trim(name)
        Matches(tag) ==
            StartsWith(ToAsciiLowercase(tag.name), ToAsciiLowercase(name_to_search))
    IN  IF GraphemeCount(name_to_search) < 3 THEN {Err(<<"InvalidName">>)}
        ELSE {IF l.ok THEN Ok(SelectSeq(l.val, Matches)) ELSE l : l \in TagsList(None)}

\* Tags::search_by_name
TagsSearchByNameCall(name) ==
    /\ call' = [op |-> "Tags.search_by_name", args |-> <<name>>]
    /\ result' \in TagsSearchByName(name)
    /\ UNCHANGED <<tables, inflight>>

\* Tags::delete up to the end of its get
TagsDeleteBegin(c, id) ==
    LET got == TagsGet(id)
    IN  /\ inflight[c] = Idle
        /\ IF got.ok
           THEN /\ inflight' = [inflight EXCEPT ![c] =
                      Pending("Tags.delete", <<id>>, [id |-> id])]
                /\ UNCHANGED <<call, result>>
           ELSE /\ call' = [op |-> "Tags.delete", args |-> <<id>>]
                /\ result' = got
                /\ UNCHANGED inflight
        /\ UNCHANGED tables

\* the diesel::delete of Tags::delete with the association rows of the tag
\* deleted in the same statement
TagsDeleteCascade(c) ==
    /\ inflight[c].op = "Tags.delete"
    /\ tags' = {r \in tags : r.id # inflight[c].val.id}
    /\ media_tags' = {mt \in media_tags : mt.tag_id # inflight[c].val.id}
    /\ call' = [op |-> "Tags.delete", args |-> inflight[c].args]
    /\ result' = Ok(Unit)
    /\ inflight' = [inflight EXCEPT ![c] = Idle]
    /\ UNCHANGED <<base_paths, tag_categories, media>>

\* the diesel::delete of Tags::delete
TagsDeleteFinish(c) ==
    /\ inflight[c].op = "Tags.delete"
    /\ tags' = {r \in tags : r.id # inflight[c].val.id}
    /\ call' = [op |-> "Tags.delete", args |-> inflight[c].args]
    /\ result' = Ok(Unit)
    /\ inflight' = [inflight EXCEPT ![c] = Idle]
    /\ UNCHANGED <<base_paths, tag_categories, media, media_tags>>

----------------------------------------------------------------------------
(* Media, src/src/media/media.rs *)

\* MediaFile::validate without the upper bound of the mark
MediaFileValidateNoMarkMax(m) ==
    IF Len(m.relative_path) = 0 THEN Err(<<"InvalidRelativePath">>)
    ELSE IF m.base_path_id <= 0 THEN Err(<<"InvalidBasePathID">>)
    ELSE IF m.width # None /\ m.width[1] <= 0 THEN Err(<<"InvalidWidth">>)
    ELSE IF m.height # None /\ m.height[1] <= 0 THEN Err(<<"InvalidHeight">>)
    ELSE IF F64LeZero(m.size) THEN Err(<<"InvalidSize">>)
    ELSE IF m.mark # None /\ m.mark[1] <= 0 THEN Err(<<"InvalidMark">>)
    ELSE IF GraphemeCount(m.description) > MAX_DESCRIPTION_LENGTH
         THEN Err(<<"DescriptionTooLong">>)
    ELSE Ok(m)

\* MediaFile::validate
MediaFileValidate(m) ==
    IF Len(m.relative_path) = 0 THEN Err(<<"InvalidRelativePath">>)
    ELSE IF m.base_path_id <= 0 THEN Err(<<"InvalidBasePathID">>)
    ELSE IF m.width # None /\ m.width[1] <= 0 THEN Err(<<"InvalidWidth">>)
    ELSE IF m.height # None /\ m.height[1] <= 0 THEN Err(<<"InvalidHeight">>)
    ELSE IF F64LeZero(m.size) THEN Err(<<"InvalidSize">>)
    ELSE IF m.mark # None /\ (m.mark[1] <= 0 \/ m.mark[1] > 10) THEN Err(<<"InvalidMark">>)
    ELSE IF GraphemeCount(m.description) > MAX_DESCRIPTION_LENGTH
         THEN Err(<<"DescriptionTooLong">>)
    ELSE Ok(m)

\* MediaFileWithNewData with the description of the patch taken as given: a
\* patch without a description empties it
MediaFileWithNewDataDefaults(m, update_data) ==
    [id |-> m.id,
     relative_path |-> m.relative_path,
     base_path_id |-> m.base_path_id,
     width |-> IF update_data.width = None THEN m.width ELSE Some(update_data.width[1]),
     height |-> IF update_data.height = None THEN m.height ELSE Some(update_data.height[1]),
     size |-> IF update_data.size = None THEN m.size ELSE update_data.size[1],
     mark |-> IF update_data.mark = None THEN m.mark ELSE Some(update_data.mark[1]),
     description |-> IF update_data.description = None THEN <<>>
                     ELSE update_data.description[1],
     media_type |-> m.media_type]

\* MediaFile::with_new_data
MediaFileWithNewData(m, update_data) ==
    [id |-> m.id,
     relative_path |-> m.relative_path,
     base_path_id |-> m.base_path_id,
     width |-> IF update_data.width = None THEN m.width ELSE Some(update_data.width[1]),
     height |-> IF update_data.height = None THEN m.height ELSE Some(update_data.height[1]),
     size |-> IF update_data.size = None THEN m.size ELSE update_data.size[1],
     mark |-> IF update_data.mark = None THEN m.mark ELSE Some(update_data.mark[1]),
     description |-> IF update_data.description = None THEN m.description
                     ELSE update_data.description[1],
     media_type |-> m.media_type]

\* MediaFileFrom without trim_matches('/') on the relative path
MediaFileFromUntrimmed(value) ==
    [id |-> 0,
     relative_path |-> value.relative_path,
     base_path_id |-> value.base_path_id,
     width |-> value.width,
     height |-> value.height,
     size |-> value.size,
     mark |-> value.mark,
     description |-> Trim(value.description),
     media_type |-> value.media_type]

\* impl From<CreateMediaFile> for MediaFile
MediaFileFrom(value) ==
    [id |-> 0,
     relative_path |-> TrimMatches(value.relative_path, "/"),
     base_path_id |-> value.base_path_id,
     width |-> value.width,
     height |-> value.height,
     size |-> value.size,
     mark |-> value.mark,
     description |-> Trim(value.description),
     media_type |-> value.media_type]

\* the changeset of a MediaFile (derive AsChangeset): the primary key is not
\* assigned and an Option field that is None is left as stored
MediaChangeset(row, data) ==
    [row EXCEPT !.relative_path = data.relative_path,
                !.base_path_id = data.base_path_id,
                !.width = IF data.width = None THEN @ ELSE data.width,
                !.height = IF data.height = None THEN @ ELSE data.height,
                !.size = data.size,
                !.mark = IF data.mark = None THEN @ ELSE data.mark,
                !.description = data.description,
                !.media_type = MediaTypeToString(data.media_type)]

\* Media::get
MediaGet(id) ==
    IF id <= 0 THEN Err(<<"InvalidID">>)
    ELSE IF \E r \in media : r.id = id
         THEN Ok(LoadMediaFile(CHOOSE r \in media : r.id = id))
         ELSE Err(<<"NotFound">>)

\* MediaGetByRelativePath without trim_matches('/') on the path looked up
MediaGetByRelativePathRaw(base_path_id, relative_path) ==
    LET found == {r \in media : /\ r.relative_path = relative_path
                                /\ r.base_path_id = base_path_id}
    IN  IF Len(relative_path) = 0 THEN Err(<<"InvalidRelativePath">>)
        ELSE IF base_path_id <= 0 THEN Err(<<"InvalidBasePathID">>)
        ELSE IF found # {}
             THEN Ok(LoadMediaFile(CHOOSE r \in found : \A o \in found : r.id <= o.id))
             ELSE Err(<<"NotFound">>)

\* Media::get_by_relative_path
MediaGetByRelativePath(base_path_id, relative_path) ==
    LET rp == TrimMatches(relative_path, "/")
        found == {r \in media : r.relative_path = rp /\ r.base_path_id = base_path_id}
    IN  IF Len(rp) = 0 THEN Err(<<"InvalidRelativePath">>)
        ELSE IF base_path_id <= 0 THEN Err(<<"InvalidBasePathID">>)
        ELSE IF found # {}
             THEN Ok(LoadMediaFile(CHOOSE r \in found : \A o \in found : r.id <= o.id))
             ELSE Err(<<"NotFound">>)

\* Media::create up to the end of validate: the base path is looked up and
\* the data validated
MediaCreateBegin(c, create_data) ==
    LET bp == BasePathsGet(create_data.base_path_id)
        v == MediaFileValidate(MediaFileFrom(create_data))
    IN  /\ inflight[c] = Idle
        /\ IF bp.ok /\ v.ok
           THEN /\ inflight' = [inflight EXCEPT ![c] =
                      Pending("Media.create/first", <<create_data>>, v.val)]
                /\ UNCHANGED <<call, result>>
           ELSE /\ call' = [op |-> "Media.create", args |-> <<create_data>>]
                /\ result' = IF ~bp.ok THEN Err(<<"BasePathsError">> \o bp.val) ELSE v
                /\ UNCHANGED inflight
        /\ UNCHANGED tables

\* the uniqueness query of Media::create, on the media stored when it runs
MediaCreateFirst(c) ==
    LET data == inflight[c].val
        exists == \E r \in media : /\ r.base_path_id = data.base_path_id
                                    /\ r.relative_path = data.relative_path
    IN  /\ inflight[c].op = "Media.create/first"
        /\ IF exists
           THEN /\ call' = [op |-> "Media.create", args |-> inflight[c].args]
                /\ result' = Err(<<"AlreadyExists">>)
                /\ inflight' = [inflight EXCEPT ![c] = Idle]
           ELSE /\ inflight' = [inflight EXCEPT ![c] =
                      Pending("Media.create", inflight[c].args, data)]
                /\ UNCHANGED <<call, result>>
        /\ UNCHANGED tables

\* the insert_into(media_table) of Media::create.  SQLite binds a NaN as
\* NULL, which the column size (Double, not Nullable, in schema.rs) refuses:
\* the statement fails, nothing is written and the error is returned as
\* DatabaseError
MediaCreateInsert(c) ==
    LET row == StoreMediaFile([inflight[c].val EXCEPT !.id = NextId(media)])
    IN  /\ inflight[c].op = "Media.create"
        /\ media' = IF row.size = NaN THEN media ELSE media \cup {row}
        /\ call' = [op |-> "Media.create", args |-> inflight[c].args]
        /\ result' = IF row.size = NaN THEN Err(<<"DatabaseError">>)
                     ELSE Ok(LoadMediaFile(row))
        /\ inflight' = [inflight EXCEPT ![c] = Idle]
        /\ UNCHANGED <<base_paths, tag_categories, tags, media_tags>>

\* Media::update up to the end of validate: the row is read, merged with the
\* patch and validated
MediaUpdateBegin(c, id, update_data) ==
    LET got == MediaGet(id)
        v == MediaFileValidate(MediaFileWithNewData(got.val, update_data))
    IN  /\ inflight[c] = Idle
        /\ IF got.ok /\ v.ok
           THEN /\ inflight' = [inflight EXCEPT ![c] =
                      Pending("Media.update", <<id, update_data>>, v.val)]
                /\ UNCHANGED <<call, result>>
           ELSE /\ call' = [op |-> "Media.update", args |-> <<id, update_data>>]
                /\ result' = IF ~got.ok THEN got ELSE v
                /\ UNCHANGED inflight
        /\ UNCHANGED tables

\* the diesel::update of Media::update: the merged record is written to the
\* row of its id, when that row is still stored.  A size that is NaN is
\* bound as NULL, which the column refuses in the row it is written to, so
\* that the statement fails and writes nothing; with no row of the id the
\* statement writes to none and succeeds
MediaUpdateFinish(c) ==
    LET data == inflight[c].val
        refused == data.size = NaN /\ \E r \in media : r.id = data.id
    IN  /\ inflight[c].op = "Media.update"
        /\ media' = IF refused THEN media
                    ELSE {IF r.id = data.id THEN MediaChangeset(r, data) ELSE r :
                             r \in media}
        /\ call' = [op |-> "Media.update", args |-> inflight[c].args]
        /\ result' = IF refused THEN Err(<<"DatabaseError">>) ELSE Ok(Unit)
        /\ inflight' = [inflight EXCEPT ![c] = Idle]
        /\ UNCHANGED <<base_paths, tag_categories, tags, media_tags>>

\* MediaListLoad with the rows filtered by base_path_id
MediaListLoadFiltered(base_path_id) ==
    LET rows == OrderById({r \in media : r.base_path_id = base_path_id})
    IN  Ok([i \in 1..Len(rows) |-> LoadMediaFile(rows[i])])

\* the load of Media::list: every row of the media table ordered by id
MediaListLoad(base_path_id) ==
    LET rows == OrderById(media)
    IN  Ok([i \in 1..Len(rows) |-> LoadMediaFile(rows[i])])

\* Media::list up to the end of its lookup of the base path
MediaListBegin(c, base_path_id) ==
    LET bp == BasePathsGet(base_path_id)
    IN  /\ inflight[c] = Idle
        /\ IF bp.ok
           THEN /\ inflight' = [inflight EXCEPT ![c] =
                      Pending("Media.list", <<base_path_id>>,
                              [base_path_id |-> base_path_id])]
                /\ UNCHANGED <<call, result>>
           ELSE /\ call' = [op |-> "Media.list", args |-> <<base_path_id>>]
                /\ result' = Err(<<"BasePathsError">> \o bp.val)
                /\ UNCHANGED inflight
        /\ UNCHANGED tables

\* the load of Media::list, on the media stored when it runs
MediaListFinish(c) ==
    /\ inflight[c].op = "Media.list"
    /\ call' = [op |-> "Media.list", args |-> inflight[c].args]
    /\ result' = MediaListLoad(inflight[c].val.base_path_id)
    /\ inflight' = [inflight EXCEPT ![c] = Idle]
    /\ UNCHANGED tables

\* Media::delete up to the end of its count of the associations
MediaDeleteBegin(c, id) ==
    LET got == MediaGet(id)
        vals == CountExecute({mt \in media_tags : mt.media_id = id})
    IN  /\ inflight[c] = Idle
        /\ IF got.ok /\ vals = 0
           THEN /\ inflight' = [inflight EXCEPT ![c] =
                      Pending("Media.delete", <<id>>, [id |-> id])]
                /\ UNCHANGED <<call, result>>
           ELSE /\ call' = [op |-> "Media.delete", args |-> <<id>>]
                /\ result' = IF ~got.ok THEN got ELSE Err(<<"InUse">>)
                /\ UNCHANGED inflight
        /\ UNCHANGED tables

\* the diesel::delete of Media::delete
MediaDeleteFinish(c) ==
    /\ inflight[c].op = "Media.delete"
    /\ media' = {r \in media : r.id # inflight[c].val.id}
    /\ call' = [op |-> "Media.delete", args |-> inflight[c].args]
    /\ result' = Ok(Unit)
    /\ inflight' = [inflight EXCEPT ![c] = Idle]
    /\ UNCHANGED <<base_paths, tag_categories, tags, media_tags>>

\* Media::insert_tag with the tag lookup ahead of the media lookup
MediaInsertTagTagFirst(c, media_id, tag_id) ==
    LET got == MediaGet(media_id)
        tag == TagsGet(tag_id)
    IN  /\ inflight[c] = Idle
        /\ IF got.ok /\ tag.ok
           THEN /\ inflight' = [inflight EXCEPT ![c] =
                      Pending("Media.insert_tag/tags.get", <<media_id, tag_id>>,
                              [id |-> 0, media_id |-> media_id, tag_id |-> tag_id])]
                /\ UNCHANGED <<call, result>>
           ELSE /\ call' = [op |-> "Media.insert_tag", args |-> <<media_id, tag_id>>]
                /\ result' = IF ~tag.ok THEN Err(<<"TagError">> \o tag.val) ELSE got
                /\ UNCHANGED inflight
        /\ UNCHANGED tables

\* Media::insert_tag up to the end of its get of the media file
MediaInsertTagBegin(c, media_id, tag_id) ==
    LET got == MediaGet(media_id)
    IN  /\ inflight[c] = Idle
        /\ IF got.ok
           THEN /\ inflight' = [inflight EXCEPT ![c] =
                      Pending("Media.insert_tag/tags.get", <<media_id, tag_id>>,
                              [id |-> 0, media_id |-> media_id, tag_id |-> tag_id])]
                /\ UNCHANGED <<call, result>>
           ELSE /\ call' = [op |-> "Media.insert_tag", args |-> <<media_id, tag_id>>]
                /\ result' = got
                /\ UNCHANGED inflight
        /\ UNCHANGED tables

\* the Tags::get of Media::insert_tag, on the tags stored when it runs
MediaInsertTagTagsGet(c) ==
    LET tag == TagsGet(inflight[c].val.tag_id)
    IN  /\ inflight[c].op = "Media.insert_tag/tags.get"
        /\ IF tag.ok
           THEN /\ inflight' = [inflight EXCEPT ![c] =
                      Pending("Media.insert_tag/first", inflight[c].args,
                              inflight[c].val)]
                /\ UNCHANGED <<call, result>>
           ELSE /\ call' = [op |-> "Media.insert_tag", args |-> inflight[c].args]
                /\ result' = Err(<<"TagError">> \o tag.val)
                /\ inflight' = [inflight EXCEPT ![c] = Idle]
        /\ UNCHANGED tables

\* MediaInsertTagFirst without the lookup of an existing association
MediaInsertTagNoLookup(c) ==
    /\ inflight[c].op = "Media.insert_tag/first"
    /\ inflight' = [inflight EXCEPT ![c] =
          Pending("Media.insert_tag", inflight[c].args, inflight[c].val)]
    /\ UNCHANGED <<call, result>>
    /\ UNCHANGED tables

\* the lookup of the association in Media::insert_tag, on the associations
\* stored when it runs
MediaInsertTagFirst(c) ==
    LET data == inflight[c].val
        tagged == \E mt \in media_tags : /\ mt.media_id = data.media_id
                                          /\ mt.tag_id = data.tag_id
    IN  /\ inflight[c].op = "Media.insert_tag/first"
        /\ IF tagged
           THEN /\ call' = [op |-> "Media.insert_tag", args |-> inflight[c].args]
                /\ result' = Err(<<"AlreadyTagged">>)
                /\ inflight' = [inflight EXCEPT ![c] = Idle]
           ELSE /\ inflight' = [inflight EXCEPT ![c] =
                      Pending("Media.insert_tag", inflight[c].args, data)]
                /\ UNCHANGED <<call, result>>
        /\ UNCHANGED tables

\* MediaInsertTagInsert with the lookup of the association repeated in the
\* same statement as the insert
MediaInsertTagInsertChecked(c) ==
    LET row == [inflight[c].val EXCEPT !.id = NextId(media_tags)]
        tagged == \E mt \in media_tags : /\ mt.media_id = row.media_id
                                          /\ mt.tag_id = row.tag_id
    IN  /\ inflight[c].op = "Media.insert_tag"
        /\ media_tags' = IF tagged THEN media_tags ELSE media_tags \cup {row}
        /\ call' = [op |-> "Media.insert_tag", args |-> inflight[c].args]
        /\ result' = IF tagged THEN Err(<<"AlreadyTagged">>) ELSE Ok(Unit)
        /\ inflight' = [inflight EXCEPT ![c] = Idle]
        /\ UNCHANGED <<base_paths, tag_categories, tags, media>>

\* the insert_into(media_tags_table) of Media::insert_tag
MediaInsertTagInsert(c) ==
    LET row == [inflight[c].val EXCEPT !.id = NextId(media_tags)]
    IN  /\ inflight[c].op = "Media.insert_tag"
        /\ media_tags' = media_tags \cup {row}
        /\ call' = [op |-> "Media.insert_tag", args |-> inflight[c].args]
        /\ result' = Ok(Unit)
        /\ inflight' = [inflight EXCEPT ![c] = Idle]
        /\ UNCHANGED <<base_paths, tag_categories, tags, media>>

\* LoadMediaTags without the media_id filter: the tag_id of every
\* association row
LoadAnyMediaTags(media_id) == {mt.tag_id : mt \in media_tags}

\* the load of the association rows in Media::list_tags_for_media: the
\* tag_id of every row of the media file
LoadMediaTags(media_id) ==
    {mt.tag_id : mt \in {x \in media_tags : x.media_id = media_id}}

\* the load of the tags in Media::list_tags_for_media: the tags whose id is
\* among tag_ids
LoadTags(tag_ids) == OrderById({t \in tags : t.id \in tag_ids})

\* Media::list_tags_for_media as a function of its input: the tags whose id
\* is the tag_id of an association row of the media file
ListTagsForMedia(media_id) ==
    IF media_id <= 0 THEN Err(<<"InvalidID">>)
    ELSE IF ~MediaGet(media_id).ok THEN MediaGet(media_id)
    ELSE Ok(LoadTags(LoadMediaTags(media_id)))

\* Vec<Tag>::into_iter().any(|tag| tag.id == tag_id)
AnyTagId(list, tag_id) == \E i \in 1..Len(list) : list[i].id = tag_id

\* the filter of the DELETE in Media::untag_media: `mid.eq(mid)` compares
\* the media_id column with itself, `tid.eq(tag_id)` the tag_id column with
\* the argument
UntagFilter(mt, media_id, tag_id) == mt.media_id = mt.media_id /\ mt.tag_id = tag_id

\* Media::untag_media up to the end of its get of the media file
MediaUntagMediaBegin(c, media_id, tag_id) ==
    LET got == MediaGet(media_id)
    IN  /\ inflight[c] = Idle
        /\ IF got.ok
           THEN /\ inflight' = [inflight EXCEPT ![c] =
                      Pending("Media.untag_media/tags.get", <<media_id, tag_id>>,
                              [media_id |-> media_id, tag_id |-> tag_id])]
                /\ UNCHANGED <<call, result>>
           ELSE /\ call' = [op |-> "Media.untag_media", args |-> <<media_id, tag_id>>]
                /\ result' = got
                /\ UNCHANGED inflight
        /\ UNCHANGED tables

\* the Tags::get of Media::untag_media, on the tags stored when it runs
MediaUntagMediaTagsGet(c) ==
    LET tag == TagsGet(inflight[c].val.tag_id)
    IN  /\ inflight[c].op = "Media.untag_media/tags.get"
        /\ IF tag.ok
           THEN /\ inflight' = [inflight EXCEPT ![c] =
                      Pending("Media.untag_media/get", inflight[c].args,
                              inflight[c].val)]
                /\ UNCHANGED <<call, result>>
           ELSE /\ call' = [op |-> "Media.untag_media", args |-> inflight[c].args]
                /\ result' = Err(<<"TagError">> \o tag.val)
                /\ inflight' = [inflight EXCEPT ![c] = Idle]
        /\ UNCHANGED tables

\* the get of the list_tags_for_media in Media::untag_media, on the media
\* stored when it runs
MediaUntagMediaGet(c) ==
    LET got == MediaGet(inflight[c].val.media_id)
    IN  /\ inflight[c].op = "Media.untag_media/get"
        /\ IF got.ok
           THEN /\ inflight' = [inflight EXCEPT ![c] =
                      Pending("Media.untag_media/load_media_tags", inflight[c].args,
                              inflight[c].val)]
                /\ UNCHANGED <<call, result>>
           ELSE /\ call' = [op |-> "Media.untag_media", args |-> inflight[c].args]
                /\ result' = got
                /\ inflight' = [inflight EXCEPT ![c] = Idle]
        /\ UNCHANGED tables

\* the load of the association rows of the list_tags_for_media in
\* Media::untag_media, on the associations stored when it runs
MediaUntagMediaLoadMediaTags(c) ==
    /\ inflight[c].op = "Media.untag_media/load_media_tags"
    /\ inflight' = [inflight EXCEPT ![c] =
          Pending("Media.untag_media/load_tags", inflight[c].args,
                  [media_id |-> inflight[c].val.media_id,
                   tag_id |-> inflight[c].val.tag_id,
                   tag_ids |-> LoadMediaTags(inflight[c].val.media_id)])]
    /\ UNCHANGED <<call, result>>
    /\ UNCHANGED tables

\* the load of the tags of the list_tags_for_media in Media::untag_media, on
\* the tags stored when it runs, and the search of the tag among them
MediaUntagMediaLoadTags(c) ==
    LET data == inflight[c].val
    IN  /\ inflight[c].op = "Media.untag_media/load_tags"
        /\ IF AnyTagId(LoadTags(data.tag_ids), data.tag_id)
           THEN /\ inflight' = [inflight EXCEPT ![c] =
                      Pending("Media.untag_media", inflight[c].args,
                              [media_id |-> data.media_id, tag_id |-> data.tag_id])]
                /\ UNCHANGED <<call, result>>
           ELSE /\ call' = [op |-> "Media.untag_media", args |-> inflight[c].args]
                /\ result' = Err(<<"TagNotFound">>)
                /\ inflight' = [inflight EXCEPT ![c] = Idle]
        /\ UNCHANGED tables

\* the diesel::delete of Media::untag_media
MediaUntagMediaFinish(c) ==
    LET data == inflight[c].val
    IN  /\ inflight[c].op = "Media.untag_media"
        /\ media_tags' = {mt \in media_tags : ~UntagFilter(mt, data.media_id, data.tag_id)}
        /\ call' = [op |-> "Media.untag_media", args |-> inflight[c].args]
        /\ result' = Ok(Unit)
        /\ inflight' = [inflight EXCEPT ![c] = Idle]
        /\ UNCHANGED <<base_paths, tag_categories, tags, media>>

\* a Vec left in its input order
SortNone(t) == t

\* Vec::sort_unstable on i32
RECURSIVE SortUnstable(_)
SortUnstable(t) ==
    IF t = <<>> THEN <<>>
    ELSE LET i == CHOOSE k \in 1..Len(t) : \A j \in 1..Len(t) : t[k] <= t[j]
         IN  <<t[i]>> \o SortUnstable(SubSeq(t, 1, i - 1) \o SubSeq(t, i + 1, Len(t)))

\* Vec::dedup: drops every element equal to its predecessor
RECURSIVE Dedup(_)
Dedup(t) ==
    IF Len(t) <= 1 THEN t
    ELSE LET rest == Dedup(Tail(t))
         IN  IF Head(t) = Head(rest) THEN rest ELSE <<Head(t)>> \o rest

\* ImgIds without the HAVING clause: a media file qualifies with one match
ImgIdsAnyTag(tag_ids) ==
    {mt.media_id : mt \in {x \in media_tags :
                              \E i \in 1..Len(tag_ids) : tag_ids[i] = x.tag_id}}

\* ImgIds with HAVING COUNT(*) in place of COUNT(DISTINCT tag_id): every
\* matching row of a media file counts
ImgIdsCountRows(tag_ids) ==
    LET matching == {mt \in media_tags : \E i \in 1..Len(tag_ids) : tag_ids[i] = mt.tag_id}
        group(m) == {mt \in matching : mt.media_id = m}
    IN  {m \in {mt.media_id : mt \in matching} : Cardinality(group(m)) = Len(tag_ids)}

\* SELECT DISTINCT media_id FROM media_tags WHERE tag_id IN tag_ids
\* GROUP BY media_id HAVING COUNT(DISTINCT tag_id) = len(tag_ids)
ImgIds(tag_ids) ==
    LET matching == {mt \in media_tags : \E i \in 1..Len(tag_ids) : tag_ids[i] = mt.tag_id}
        group(m) == {mt \in matching : mt.media_id = m}
        count_distinct(g) == Cardinality({mt.tag_id : mt \in g})
    IN  {m \in {mt.media_id : mt \in matching} : count_distinct(group(m)) = Len(tag_ids)}

\* the load of the media in Media::list_media_from_tags: the rows whose id
\* is among img_ids
LoadMedia(img_ids) ==
    LET rows == OrderById({r \in media : r.id \in img_ids})
    IN  [i \in 1..Len(rows) |-> LoadMediaFile(rows[i])]

\* Media::list_media_from_tags as a function of its input
ListMediaFromTags(tag_seq) ==
    LET tag_ids == Dedup(SortUnstable(tag_seq))
    IN  IF tag_ids = <<>> THEN Err(<<"NoTagsProvided">>)
        ELSE Ok(LoadMedia(ImgIds(tag_ids)))

\* Media::list_media_from_tags up to the end of its query of the
\* associations
MediaListMediaFromTagsBegin(c, tag_seq) ==
    LET tag_ids == Dedup(SortUnstable(tag_seq))
    IN  /\ inflight[c] = Idle
        /\ IF tag_ids # <<>>
           THEN /\ inflight' = [inflight EXCEPT ![c] =
                      Pending("Media.list_media_from_tags", <<tag_seq>>,
                              [img_ids |-> ImgIds(tag_ids)])]
                /\ UNCHANGED <<call, result>>
           ELSE /\ call' = [op |-> "Media.list_media_from_tags", args |-> <<tag_seq>>]
                /\ result' = Err(<<"NoTagsProvided">>)
                /\ UNCHANGED inflight
        /\ UNCHANGED tables

\* the load of the media in Media::list_media_from_tags, on the media stored
\* when it runs
MediaListMediaFromTagsFinish(c) ==
    /\ inflight[c].op = "Media.list_media_from_tags"
    /\ call' = [op |-> "Media.list_media_from_tags", args |-> inflight[c].args]
    /\ result' = Ok(LoadMedia(inflight[c].val.img_ids))
    /\ inflight' = [inflight EXCEPT ![c] = Idle]
    /\ UNCHANGED tables

----------------------------------------------------------------------------
(* The store before the first call: the four tables the registries insert  *)
(* into are empty; tag_categories has no insert in the code and holds the  *)
(* rows that were put there outside it, which no Category::clean has        *)
(* passed over: the first is written as clean would write it, the second    *)
(* has a blank before its name and its color in upper case                  *)

SeedCategories ==
    {[id |-> 1, name |-> <<"c">>, color |-> <<"#", "f", "f", "0", "0", "0", "0">>,
      description |-> <<>>],
     [id |-> 2, name |-> <<" ", "k">>, color |-> <<"#", "0", "0", "0", "0", "F", "F">>,
      description |-> <<>>]}

Init ==
    /\ base_paths = {}
    /\ tag_categories = SeedCategories
    /\ tags = {}
    /\ media = {}
    /\ media_tags = {}
    /\ call = [op |-> "init", args |-> <<>>]
    /\ result = Ok(Unit)
    /\ inflight = [c \in Callers |-> Idle]

----------------------------------------------------------------------------
(* Inputs *)

MaxBasePathId == 2
MaxMediaId == 2
MaxTagId == 2

BasePathIdInputs == 0..MaxBasePathId
MediaIdInputs == 0..MaxMediaId
TagIdInputs == 0..MaxTagId

LongDescription == [i \in 1..(MAX_DESCRIPTION_LENGTH + 1) |-> "d"]

\* as many characters, of which a CR LF is one grapheme: 300 graphemes
CrLfDescription ==
    [i \in 1..(MAX_DESCRIPTION_LENGTH + 1) |->
        IF i = 150 THEN "\r" ELSE IF i = 151 THEN "\n" ELSE "d"]

\* 300 characters, of which one takes two bytes: 301 bytes
WideDescription ==
    [i \in 1..MAX_DESCRIPTION_LENGTH |-> IF i = 1 THEN "U+00E9" ELSE "d"]

\* paths: a directory, the same between a form feed and a no-break space
\* and by another name, a directory below it, the root, a file, a missing
\* path, a relative path
PathInputs ==
    {P_a, <<"\f", "/", "a", "/", "U+00A0">>, <<"/", "a", "/", ".">>, P_ab,
     <<"/", "a", "/", "b", "/", "/">>,
     <<"/">>, P_file, P_missing, P_rel}

\* descriptions: 300 graphemes behind a form feed, and 301
DescriptionInputs == {<<"\f">> \o CrLfDescription, LongDescription}

\* a valid CreateMediaFile for a relative path and a base path id
NewMedia(rp, bp) ==
    [relative_path |-> rp, base_path_id |-> bp, width |-> None, height |-> None,
     size |-> F64(1), mark |-> None, description |-> <<>>, media_type |-> "Image"]

----------------------------------------------------------------------------
(* Base paths and the media files under them *)

PathsCreate ==
    \E p \in PathInputs, d \in DescriptionInputs : BasePathsCreateBegin(1, p, d)

PathsDelete == \E id \in BasePathIdInputs : BasePathsDeleteBegin(1, id)

PathsMediaCreate ==
    \E bp \in BasePathIdInputs : MediaCreateBegin(1, NewMedia(<<"x">>, bp))

PathsMediaDelete == \E id \in MediaIdInputs : MediaDeleteBegin(1, id)

NextPaths ==
    \/ PathsCreate
    \/ PathsDelete
    \/ PathsMediaCreate
    \/ PathsMediaDelete
    \/ BasePathsCreateInsert(1)
    \/ BasePathsDeleteFinish(1)
    \/ MediaCreateFirst(1)
    \/ MediaCreateInsert(1)
    \/ MediaDeleteFinish(1)

SpecPaths == Init /\ [][NextPaths]_vars

----------------------------------------------------------------------------
(* Tagging: media files, tags and the associations between them *)

MaxMediaTagId == 3

\* the inputs of list_media_from_tags: no tag, one tag, two tags in either
\* order, repeated tags, a tag id that is never assigned
TagSeqInputs ==
    {<<>>, <<1>>, <<2>>, <<1, 2>>, <<2, 1>>, <<1, 1>>, <<2, 1, 2>>, <<1, MaxTagId + 1>>}

MediaPathInputs == {<<"x">>, <<"y">>}
TagNameInputs == {<<"t">>, <<"u">>}

\* a valid CreateTag for a name and a category id
NewTag(name, cat) == [name |-> name, category_id |-> cat, description |-> <<>>]

TaggingBasePath == BasePathsCreateBegin(1, P_a, <<>>)

TaggingMediaCreate ==
    /\ NextId(media) <= MaxMediaId
    /\ \E rp \in MediaPathInputs : MediaCreateBegin(1, NewMedia(rp, 1))

TaggingMediaDelete == \E id \in MediaIdInputs : MediaDeleteBegin(1, id)

TaggingTagsCreate ==
    /\ NextId(tags) <= MaxTagId
    /\ \E n \in TagNameInputs : TagsCreateBegin(1, NewTag(n, 1))

TaggingTagsDelete == \E id \in TagIdInputs : TagsDeleteBegin(1, id)

TaggingInsertTag ==
    /\ NextId(media_tags) <= MaxMediaTagId
    /\ \E m \in MediaIdInputs, t \in TagIdInputs : MediaInsertTagBegin(1, m, t)

TaggingUntagMedia ==
    \E m \in MediaIdInputs, t \in TagIdInputs : MediaUntagMediaBegin(1, m, t)

\* the same calls with the ids that the store assigns
AssignedMediaDelete == \E id \in 1..MaxMediaId : MediaDeleteBegin(1, id)

AssignedTagsDelete == \E id \in 1..MaxTagId : TagsDeleteBegin(1, id)

AssignedInsertTag ==
    /\ NextId(media_tags) <= MaxMediaTagId
    /\ \E m \in 1..MaxMediaId, t \in 1..MaxTagId : MediaInsertTagBegin(1, m, t)

AssignedUntagMedia ==
    \E m \in 1..MaxMediaId, t \in 1..MaxTagId : MediaUntagMediaBegin(1, m, t)

\* the same calls on the media file of id 1
SingleInsertTag ==
    /\ NextId(media_tags) <= MaxMediaTagId
    /\ \E t \in 1..MaxTagId : MediaInsertTagBegin(1, 1, t)

SingleUntagMedia == \E t \in 1..MaxTagId : MediaUntagMediaBegin(1, 1, t)

\* Media::create of "x", and of "y" while a media file "x" is stored, under
\* base path 1
FreshMediaCreate ==
    /\ NextId(media) <= MaxMediaId
    /\ MediaCreateBegin(1, NewMedia(IF \E r \in media : r.relative_path = <<"x">>
                                    THEN <<"y">> ELSE <<"x">>, 1))

\* Tags::create of "t", then of "u", in category 1
FreshTagsCreate ==
    /\ NextId(tags) <= MaxTagId
    /\ TagsCreateBegin(1, NewTag(IF tags = {} THEN <<"t">> ELSE <<"u">>, 1))

\* a query of caller 1, made when its last call has returned
TaggingListMedia == \E s \in TagSeqInputs : MediaListMediaFromTagsBegin(1, s)

\* media files that are tagged and queried, and deleted while tagged
NextQuery ==
    \/ TaggingBasePath
    \/ FreshMediaCreate
    \/ AssignedMediaDelete
    \/ FreshTagsCreate
    \/ AssignedInsertTag
    \/ TaggingListMedia
    \/ BasePathsCreateInsert(1)
    \/ TagsCreateAlreadyExists(1)
    \/ TagsCreateInsert(1)
    \/ MediaCreateFirst(1)
    \/ MediaCreateInsert(1)
    \/ MediaDeleteFinish(1)
    \/ MediaInsertTagTagsGet(1)
    \/ MediaInsertTagFirst(1)
    \/ MediaInsertTagInsert(1)
    \/ MediaListMediaFromTagsFinish(1)

SpecQuery == Init /\ [][NextQuery]_vars

\* media files that are tagged and untagged
NextUntag ==
    \/ TaggingBasePath
    \/ TaggingMediaCreate
    \/ TaggingTagsCreate
    \/ TaggingInsertTag
    \/ TaggingUntagMedia
    \/ BasePathsCreateInsert(1)
    \/ TagsCreateAlreadyExists(1)
    \/ TagsCreateInsert(1)
    \/ MediaCreateFirst(1)
    \/ MediaCreateInsert(1)
    \/ MediaInsertTagTagsGet(1)
    \/ MediaInsertTagFirst(1)
    \/ MediaInsertTagInsert(1)
    \/ MediaUntagMediaTagsGet(1)
    \/ MediaUntagMediaGet(1)
    \/ MediaUntagMediaLoadMediaTags(1)
    \/ MediaUntagMediaLoadTags(1)
    \/ MediaUntagMediaFinish(1)

SpecUntag == Init /\ [][NextUntag]_vars

\* Media::create of the one media file "x" of base path 1
SingleMediaCreate ==
    /\ NextId(media) <= MaxMediaId
    /\ MediaCreateBegin(1, NewMedia(<<"x">>, 1))

\* one media file that is tagged and untagged, and tags that are deleted
\* while the media file carries them
NextRetag ==
    \/ TaggingBasePath
    \/ SingleMediaCreate
    \/ TaggingTagsCreate
    \/ TaggingTagsDelete
    \/ TaggingInsertTag
    \/ TaggingUntagMedia
    \/ BasePathsCreateInsert(1)
    \/ TagsCreateAlreadyExists(1)
    \/ TagsCreateInsert(1)
    \/ TagsDeleteFinish(1)
    \/ MediaCreateFirst(1)
    \/ MediaCreateInsert(1)
    \/ MediaInsertTagTagsGet(1)
    \/ MediaInsertTagFirst(1)
    \/ MediaInsertTagInsert(1)
    \/ MediaUntagMediaTagsGet(1)
    \/ MediaUntagMediaGet(1)
    \/ MediaUntagMediaLoadMediaTags(1)
    \/ MediaUntagMediaLoadTags(1)
    \/ MediaUntagMediaFinish(1)

SpecRetag == Init /\ [][NextRetag]_vars

\* one media file that is tagged, untagged and deleted
NextDelete ==
    \/ TaggingBasePath
    \/ SingleMediaCreate
    \/ TaggingMediaDelete
    \/ TaggingTagsCreate
    \/ TaggingInsertTag
    \/ TaggingUntagMedia
    \/ BasePathsCreateInsert(1)
    \/ TagsCreateAlreadyExists(1)
    \/ TagsCreateInsert(1)
    \/ MediaCreateFirst(1)
    \/ MediaCreateInsert(1)
    \/ MediaDeleteFinish(1)
    \/ MediaInsertTagTagsGet(1)
    \/ MediaInsertTagFirst(1)
    \/ MediaInsertTagInsert(1)
    \/ MediaUntagMediaTagsGet(1)
    \/ MediaUntagMediaGet(1)
    \/ MediaUntagMediaLoadMediaTags(1)
    \/ MediaUntagMediaLoadTags(1)
    \/ MediaUntagMediaFinish(1)

SpecDelete == Init /\ [][NextDelete]_vars

----------------------------------------------------------------------------
(* Tags that are created, renamed and moved between categories *)

\* names with and without surrounding white space, and the empty name
TagNameSpaceInputs == {<<"t">>, <<" ", "t", " ">>, <<"u">>, <<" ">>}

\* category ids: not positive, the two stored categories, never stored
MaxCategoryId == 3
CategoryIdInputs == 0..MaxCategoryId

TagDescriptionInputs == {<<>>, LongDescription, WideDescription}

\* UpdateTag values: nothing, a rename, a rename that needs trimming, a move,
\* a move to an invalid category, a description, a rename and move at once,
\* a rename with a description that is too long
UpdateTagInputs ==
    {[name |-> None, category_id |-> None, description |-> None],
     [name |-> Some(<<"u">>), category_id |-> None, description |-> None],
     [name |-> Some(<<" ", "t", " ">>), category_id |-> None, description |-> None],
     [name |-> None, category_id |-> Some(2), description |-> None],
     [name |-> None, category_id |-> Some(0), description |-> None],
     [name |-> None, category_id |-> None, description |-> Some(<<"e", " ">>)],
     [name |-> Some(<<"t">>), category_id |-> Some(1), description |-> None],
     [name |-> Some(<<"u">>), category_id |-> None, description |-> Some(LongDescription)]}

RenameTagsCreate ==
    /\ NextId(tags) <= MaxTagId
    /\ \E n \in TagNameSpaceInputs, c \in CategoryIdInputs, d \in TagDescriptionInputs :
          TagsCreateBegin(1, [name |-> n, category_id |-> c, description |-> d])

RenameTagsUpdate ==
    \E id \in TagIdInputs, u \in UpdateTagInputs : TagsUpdateBegin(1, id, u)

NextTags ==
    \/ RenameTagsCreate
    \/ RenameTagsUpdate
    \/ TagsCreateAlreadyExists(1)
    \/ TagsCreateInsert(1)
    \/ TagsUpdateValidate(1)
    \/ TagsUpdateAlreadyExists(1)
    \/ TagsUpdateFinish(1)

SpecTags == Init /\ [][NextTags]_vars

----------------------------------------------------------------------------
(* Media files that are created under two base paths, updated and deleted *)

\* relative paths with and without surrounding '/', and one that is only '/'
RelativePathInputs == {<<"x">>, <<"/", "x", "/">>, <<"y">>, <<"/">>}

\* sizes: valid and not positive
SizeInputs == {F64(1), F64(0)}

FilesBasePath == \E p \in {P_a, P_c} : BasePathsCreateBegin(1, p, <<>>)

FilesMediaCreate ==
    /\ NextId(media) <= MaxMediaId
    /\ \E rp \in RelativePathInputs, bp \in BasePathIdInputs, sz \in SizeInputs :
          MediaCreateBegin(1, [NewMedia(rp, bp) EXCEPT !.size = sz])

FilesMediaDelete == \E id \in MediaIdInputs : MediaDeleteBegin(1, id)

NextFiles ==
    \/ FilesBasePath
    \/ FilesMediaCreate
    \/ FilesMediaDelete
    \/ BasePathsCreateInsert(1)
    \/ MediaCreateFirst(1)
    \/ MediaCreateInsert(1)
    \/ MediaDeleteFinish(1)

SpecFiles == Init /\ [][NextFiles]_vars

\* UpdateMediaFile values
NoUpdate ==
    [width |-> None, height |-> None, size |-> None, mark |-> None, description |-> None]

UpdateMediaFileInputs ==
    {NoUpdate,
     [NoUpdate EXCEPT !.width = Some(5)],
     [NoUpdate EXCEPT !.width = Some(0)],
     [NoUpdate EXCEPT !.height = Some(7), !.size = Some(F64(2))],
     [NoUpdate EXCEPT !.size = Some(F64(0))],
     [NoUpdate EXCEPT !.mark = Some(10)],
     [NoUpdate EXCEPT !.mark = Some(11)],
     [NoUpdate EXCEPT !.description = Some(<<" ", "e">>)],
     [NoUpdate EXCEPT !.description = Some(LongDescription)]}

\* Media::create of "x", then of "y", under base path 1, of either a known
\* or an unknown media type
PatchMediaCreate ==
    /\ NextId(media) <= MaxMediaId
    /\ \E t \in {"Image", "Unknown"} :
          MediaCreateBegin(1, [NewMedia(IF media = {} THEN <<"x">> ELSE <<"y">>, 1)
                                  EXCEPT !.media_type = t])

PatchMediaUpdate ==
    \E id \in MediaIdInputs, u \in UpdateMediaFileInputs : MediaUpdateBegin(1, id, u)

NextPatch ==
    \/ TaggingBasePath
    \/ PatchMediaCreate
    \/ PatchMediaUpdate
    \/ BasePathsCreateInsert(1)
    \/ MediaCreateFirst(1)
    \/ MediaCreateInsert(1)
    \/ MediaUpdateFinish(1)

SpecPatch == Init /\ [][NextPatch]_vars

----------------------------------------------------------------------------
(* Tag categories that are updated *)

LongName == [i \in 1..(MAX_NAME_LENGTH + 1) |-> "n"]

NoCategoryUpdate == [name |-> None, color |-> None, description |-> None]

\* UpdateTagCategory values: nothing; names that need trimming, that are
\* empty once trimmed, that are too long; colors in upper case, with an
\* alpha channel, without '#', with a digit that is not hexadecimal, with
\* a two-byte character across two channels; descriptions that need
\* trimming, that are too long, that have 300 graphemes in 301 characters;
\* a valid name together with a bad color
UpdateTagCategoryInputs ==
    {NoCategoryUpdate,
     [NoCategoryUpdate EXCEPT !.name = Some(<<" ", "n", " ">>)],
     [NoCategoryUpdate EXCEPT !.name = Some(<<" ">>)],
     [NoCategoryUpdate EXCEPT !.name = Some(LongName)],
     [NoCategoryUpdate EXCEPT !.color = Some(<<"#", "0", "0", "F", "F", "0", "0">>)],
     [NoCategoryUpdate EXCEPT !.color = Some(<<"#", "0", "0", "f", "f", "0", "0", "7", "f">>)],
     [NoCategoryUpdate EXCEPT !.color = Some(<<"0", "0", "f", "f", "0", "0">>)],
     [NoCategoryUpdate EXCEPT !.color = Some(<<"#", "0", "0", "g", "g", "0", "0">>)],
     [NoCategoryUpdate EXCEPT !.color = Some(<<"#", "0", "U+00E9", "0", "0", "0">>)],
     [NoCategoryUpdate EXCEPT !.description = Some(<<"\f">> \o CrLfDescription)],
     [NoCategoryUpdate EXCEPT !.description = Some(LongDescription)],
     [NoCategoryUpdate EXCEPT !.name = Some(<<"m">>), !.color = Some(<<>>)]}

CategoriesUpdate ==
    \E id \in CategoryIdInputs, u \in UpdateTagCategoryInputs : TagCategoriesUpdateBegin(1, id, u)

CategoriesDelete == \E id \in CategoryIdInputs : TagCategoriesDeleteBegin(1, id)

NextCategories ==
    \/ CategoriesUpdate
    \/ CategoriesDelete
    \/ TagCategoriesUpdateFinish(1)
    \/ TagCategoriesDeleteFinish(1)

SpecCategories == Init /\ [][NextCategories]_vars

----------------------------------------------------------------------------
(* Records that are created and read back; a read changes no table *)

BasePathsGetCall(id) ==
    /\ call' = [op |-> "BasePaths.get", args |-> <<id>>]
    /\ result' = BasePathsGet(id)
    /\ UNCHANGED <<tables, inflight>>

TagsGetCall(id) ==
    /\ call' = [op |-> "Tags.get", args |-> <<id>>]
    /\ result' = TagsGet(id)
    /\ UNCHANGED <<tables, inflight>>

MediaGetCall(id) ==
    /\ call' = [op |-> "Media.get", args |-> <<id>>]
    /\ result' = MediaGet(id)
    /\ UNCHANGED <<tables, inflight>>

MediaGetByRelativePathCall(base_path_id, relative_path) ==
    /\ call' = [op |-> "Media.get_by_relative_path",
                args |-> <<base_path_id, relative_path>>]
    /\ result' = MediaGetByRelativePath(base_path_id, relative_path)
    /\ UNCHANGED <<tables, inflight>>

\* base paths with surrounding white space and trailing '/'
ReadBackPathInputs ==
    {<<"\f", "/", "a", "/", "U+00A0">>, <<"/", "c", "/", "/">>, <<"/">>}

ReadBackBasePathsCreate ==
    \E p \in ReadBackPathInputs : BasePathsCreateBegin(1, p, <<" ", "d", " ">>)

ReadBackTagsCreate ==
    /\ NextId(tags) <= MaxTagId
    /\ \E n \in TagNameSpaceInputs :
          TagsCreateBegin(1, [name |-> n, category_id |-> 1, description |-> <<" ", "e">>])

ReadBackMediaCreate ==
    /\ NextId(media) <= MaxMediaId
    /\ \E rp \in RelativePathInputs, t \in {"Image", "Unknown"} :
          MediaCreateBegin(1, [NewMedia(rp, 1) EXCEPT !.width = Some(5),
                                              !.description = <<"e", " ">>,
                                              !.media_type = t])

ReadBackBasePathsGet == \E id \in BasePathIdInputs : BasePathsGetCall(id)

ReadBackTagsGet == \E id \in TagIdInputs : TagsGetCall(id)

ReadBackMediaGet == \E id \in MediaIdInputs : MediaGetCall(id)

ReadBackMediaGetByRelativePath ==
    \E bp \in BasePathIdInputs, rp \in RelativePathInputs :
        MediaGetByRelativePathCall(bp, rp)

NextReadBack ==
    \/ ReadBackBasePathsCreate
    \/ ReadBackTagsCreate
    \/ ReadBackMediaCreate
    \/ ReadBackBasePathsGet
    \/ ReadBackTagsGet
    \/ ReadBackMediaGet
    \/ ReadBackMediaGetByRelativePath
    \/ BasePathsCreateInsert(1)
    \/ TagsCreateAlreadyExists(1)
    \/ TagsCreateInsert(1)
    \/ MediaCreateFirst(1)
    \/ MediaCreateInsert(1)

SpecReadBack == Init /\ [][NextReadBack]_vars

----------------------------------------------------------------------------
(* Every writing operation of the four registries, on two base paths, one *)
(* media file and two tags, with inputs that fail each of its checks;      *)
(* Tags.delete and TagCategories.delete are called with ids that are not   *)
(* stored, so that their lookup refuses them and no delete of theirs is     *)
(* left to run                                                              *)

WritesBasePathsCreate ==
    \/ \E p \in {P_a, P_ab, P_file, P_missing, P_rel, <<"/">>} : BasePathsCreateBegin(1, p, <<>>)
    \/ BasePathsCreateBegin(1, P_a, LongDescription)

WritesBasePathsUpdateDescription ==
    \/ \E id \in BasePathIdInputs : BasePathsUpdateDescriptionBegin(1, id, <<" ">>)
    \/ \E d \in {LongDescription, WideDescription} : BasePathsUpdateDescriptionBegin(1, 1, d)

WritesBasePathsDelete == \E id \in BasePathIdInputs : BasePathsDeleteBegin(1, id)

WritesCategoriesUpdate ==
    \/ \E id \in {0, 1, MaxCategoryId} :
          TagCategoriesUpdateBegin(1, id, [NoCategoryUpdate EXCEPT !.name = Some(<<" ", "c">>)])
    \/ \E u \in {[NoCategoryUpdate EXCEPT !.name = Some(<<" ">>)],
                  [NoCategoryUpdate EXCEPT !.name = Some(LongName)],
                  [NoCategoryUpdate EXCEPT !.description = Some(LongDescription)],
                  [NoCategoryUpdate EXCEPT !.color = Some(<<"r", "e", "d">>)],
                  [NoCategoryUpdate EXCEPT
                      !.color = Some(<<"#", "0", "U+00E9", "0", "0", "0">>)]} :
          TagCategoriesUpdateBegin(1, 1, u)

WritesCategoriesDelete == \E id \in {0, MaxCategoryId} : TagCategoriesDeleteBegin(1, id)

WritesTagsCreate ==
    /\ NextId(tags) <= MaxTagId
    /\ \E t \in {NewTag(<<"t">>, 1),
                  NewTag(<<" ">>, 1),
                  NewTag(LongName, 1),
                  NewTag(<<"t">>, 0),
                  NewTag(<<"t">>, MaxCategoryId),
                  [NewTag(<<"t">>, 1) EXCEPT !.description = LongDescription],
                  [NewTag(<<"t">>, 1) EXCEPT !.description = WideDescription]} :
          TagsCreateBegin(1, t)

WritesTagsUpdate ==
    \/ \E id \in TagIdInputs :
          TagsUpdateBegin(1, id, [name |-> Some(<<"u">>), category_id |-> None,
                          description |-> None])
    \/ \E u \in {[name |-> Some(<<" ">>), category_id |-> None, description |-> None],
                  [name |-> Some(LongName), category_id |-> None, description |-> None],
                  [name |-> None, category_id |-> Some(0), description |-> None],
                  [name |-> None, category_id |-> Some(MaxCategoryId),
                   description |-> None],
                  [name |-> None, category_id |-> None,
                   description |-> Some(LongDescription)]} :
          TagsUpdateBegin(1, 1, u)

WritesTagsDelete == \E id \in {0, MaxTagId + 1} : TagsDeleteBegin(1, id)

WritesMediaCreate ==
    /\ NextId(media) <= MaxMediaId
    /\ \E c \in {NewMedia(<<"x">>, 1),
                  NewMedia(<<"x">>, 0),
                  NewMedia(<<"/">>, 1),
                  [NewMedia(<<"x">>, 1) EXCEPT !.width = Some(0)],
                  [NewMedia(<<"x">>, 1) EXCEPT !.height = Some(0)],
                  [NewMedia(<<"x">>, 1) EXCEPT !.size = F64(0)],
                  [NewMedia(<<"x">>, 1) EXCEPT !.size = NaN],
                  [NewMedia(<<"x">>, 1) EXCEPT !.mark = Some(11)],
                  [NewMedia(<<"x">>, 1) EXCEPT !.description = LongDescription]} :
          MediaCreateBegin(1, c)

WritesMediaUpdate ==
    \/ \E id \in {0, 1, MaxMediaId} : MediaUpdateBegin(1, id, [NoUpdate EXCEPT !.size = Some(F64(1))])
    \/ \E u \in {[NoUpdate EXCEPT !.width = Some(0)],
                  [NoUpdate EXCEPT !.height = Some(0)],
                  [NoUpdate EXCEPT !.size = Some(F64(0))],
                  [NoUpdate EXCEPT !.size = Some(NaN)],
                  [NoUpdate EXCEPT !.mark = Some(0)],
                  [NoUpdate EXCEPT !.description = Some(LongDescription)]} :
          MediaUpdateBegin(1, 1, u)

WritesMediaDelete == \E id \in {0, 1, MaxMediaId} : MediaDeleteBegin(1, id)

WritesInsertTag ==
    /\ NextId(media_tags) <= MaxMediaTagId
    /\ \E m \in {0, 1, MaxMediaId}, t \in TagIdInputs : MediaInsertTagBegin(1, m, t)

WritesUntagMedia ==
    \E m \in {0, 1, MaxMediaId}, t \in TagIdInputs : MediaUntagMediaBegin(1, m, t)

NextWrites ==
    \/ WritesBasePathsCreate
    \/ WritesBasePathsUpdateDescription
    \/ WritesBasePathsDelete
    \/ WritesCategoriesUpdate
    \/ WritesCategoriesDelete
    \/ WritesTagsCreate
    \/ WritesTagsUpdate
    \/ WritesTagsDelete
    \/ WritesMediaCreate
    \/ WritesMediaUpdate
    \/ WritesMediaDelete
    \/ WritesInsertTag
    \/ WritesUntagMedia
    \/ BasePathsCreateInsert(1)
    \/ BasePathsUpdateDescriptionFinish(1)
    \/ BasePathsDeleteFinish(1)
    \/ TagCategoriesUpdateFinish(1)
    \/ TagsCreateAlreadyExists(1)
    \/ TagsCreateInsert(1)
    \/ TagsUpdateValidate(1)
    \/ TagsUpdateAlreadyExists(1)
    \/ TagsUpdateFinish(1)
    \/ MediaCreateFirst(1)
    \/ MediaCreateInsert(1)
    \/ MediaUpdateFinish(1)
    \/ MediaDeleteFinish(1)
    \/ MediaInsertTagTagsGet(1)
    \/ MediaInsertTagFirst(1)
    \/ MediaInsertTagInsert(1)
    \/ MediaUntagMediaTagsGet(1)
    \/ MediaUntagMediaGet(1)
    \/ MediaUntagMediaLoadMediaTags(1)
    \/ MediaUntagMediaLoadTags(1)
    \/ MediaUntagMediaFinish(1)

SpecWrites == Init /\ [][NextWrites]_vars

----------------------------------------------------------------------------
(* Calls of two callers whose statements interleave *)

\* two callers that create the same base path, the same tag, the same media
\* file and the same association
RaceBasePathsBegin ==
    \E c \in Callers, p \in {P_a, <<"/", "a", "/">>} : BasePathsCreateBegin(c, p, <<>>)

RaceBasePathsInsert == \E c \in Callers : BasePathsCreateInsert(c)

RaceTagsBegin ==
    \E c \in Callers : TagsCreateBegin(c, NewTag(<<"t">>, 1))

RaceTagsAlreadyExists == \E c \in Callers : TagsCreateAlreadyExists(c)

RaceTagsInsert == \E c \in Callers : TagsCreateInsert(c)

RaceMediaBegin ==
    \E c \in Callers : MediaCreateBegin(c, NewMedia(<<"x">>, 1))

RaceMediaFirst == \E c \in Callers : MediaCreateFirst(c)

RaceMediaInsert == \E c \in Callers : MediaCreateInsert(c)

RaceInsertTagBegin ==
    \E c \in Callers : MediaInsertTagBegin(c, 1, 1)

RaceInsertTagTagsGet == \E c \in Callers : MediaInsertTagTagsGet(c)

RaceInsertTagFirst == \E c \in Callers : MediaInsertTagFirst(c)

RaceInsertTagInsert == \E c \in Callers : MediaInsertTagInsert(c)

NextRace ==
    \/ RaceBasePathsBegin
    \/ RaceBasePathsInsert
    \/ RaceTagsBegin
    \/ RaceTagsAlreadyExists
    \/ RaceTagsInsert
    \/ RaceMediaBegin
    \/ RaceMediaFirst
    \/ RaceMediaInsert
    \/ RaceInsertTagBegin
    \/ RaceInsertTagTagsGet
    \/ RaceInsertTagFirst
    \/ RaceInsertTagInsert

SpecRace == Init /\ [][NextRace]_vars

\* a caller that deletes a base path, or a media file, while nothing
\* references it, so that the count of its in-use check is zero, next to a
\* caller that creates a media file under the base path, or tags the media
\* file
\* Media::create of "x", and of "y" while a media file "x" is stored
OrphanMediaBegin ==
    \E c \in Callers :
        MediaCreateBegin(c, NewMedia(IF \E r \in media : r.relative_path = <<"x">>
                                     THEN <<"y">> ELSE <<"x">>, 1))

OrphanBasePathsDeleteBegin ==
    \E c \in Callers, id \in BasePathIdInputs :
        /\ ~\E m \in media : m.base_path_id = id
        /\ BasePathsDeleteBegin(c, id)

OrphanBasePathsDeleteFinish == \E c \in Callers : BasePathsDeleteFinish(c)

OrphanMediaDeleteBegin ==
    \E c \in Callers, id \in MediaIdInputs :
        /\ ~\E mt \in media_tags : mt.media_id = id
        /\ MediaDeleteBegin(c, id)

OrphanMediaDeleteFinish == \E c \in Callers : MediaDeleteFinish(c)

NextOrphan ==
    \/ RaceBasePathsBegin
    \/ RaceBasePathsInsert
    \/ RaceTagsBegin
    \/ RaceTagsAlreadyExists
    \/ RaceTagsInsert
    \/ OrphanMediaBegin
    \/ RaceMediaFirst
    \/ RaceMediaInsert
    \/ RaceInsertTagBegin
    \/ RaceInsertTagTagsGet
    \/ RaceInsertTagFirst
    \/ RaceInsertTagInsert
    \/ OrphanBasePathsDeleteBegin
    \/ OrphanBasePathsDeleteFinish
    \/ OrphanMediaDeleteBegin
    \/ OrphanMediaDeleteFinish

SpecOrphan == Init /\ [][NextOrphan]_vars

\* the base paths registry alone: a caller creates and deletes paths, call
\* after call, while the other updates the description of the first
RegisterUpdateDescriptionBegin == BasePathsUpdateDescriptionBegin(2, 1, <<" ", "d">>)

RegisterUpdateDescriptionFinish == BasePathsUpdateDescriptionFinish(2)

NextRegister ==
    \/ PathsCreate
    \/ PathsDelete
    \/ RegisterUpdateDescriptionBegin
    \/ RegisterUpdateDescriptionFinish
    \/ BasePathsCreateInsert(1)
    \/ BasePathsDeleteFinish(1)

SpecRegister == Init /\ [][NextRegister]_vars

\* one media file that a caller tags and untags, call after call, while the
\* other deletes, renames and untags its first tag
RetagTagsDeleteBegin == TagsDeleteBegin(2, 1)

RetagTagsDeleteFinish == TagsDeleteFinish(2)

RetagTagsUpdateBegin ==
    TagsUpdateBegin(2, 1, [name |-> Some(<<"u">>), category_id |-> None,
                           description |-> None])

RetagTagsUpdateValidate == TagsUpdateValidate(2)

RetagTagsUpdateAlreadyExists == TagsUpdateAlreadyExists(2)

RetagTagsUpdateFinish == TagsUpdateFinish(2)

RetagUntagMediaBegin == MediaUntagMediaBegin(2, 1, 1)

RetagUntagMediaTagsGet == MediaUntagMediaTagsGet(2)

RetagUntagMediaGet == MediaUntagMediaGet(2)

RetagUntagMediaLoadMediaTags == MediaUntagMediaLoadMediaTags(2)

RetagUntagMediaLoadTags == MediaUntagMediaLoadTags(2)

RetagUntagMediaFinish == MediaUntagMediaFinish(2)

NextTagDelete ==
    \/ TaggingBasePath
    \/ SingleMediaCreate
    \/ TaggingTagsCreate
    \/ AssignedTagsDelete
    \/ SingleInsertTag
    \/ SingleUntagMedia
    \/ BasePathsCreateInsert(1)
    \/ TagsCreateAlreadyExists(1)
    \/ TagsCreateInsert(1)
    \/ TagsDeleteFinish(1)
    \/ MediaCreateFirst(1)
    \/ MediaCreateInsert(1)
    \/ MediaInsertTagTagsGet(1)
    \/ MediaInsertTagFirst(1)
    \/ MediaInsertTagInsert(1)
    \/ MediaUntagMediaTagsGet(1)
    \/ MediaUntagMediaGet(1)
    \/ MediaUntagMediaLoadMediaTags(1)
    \/ MediaUntagMediaLoadTags(1)
    \/ MediaUntagMediaFinish(1)
    \/ RetagTagsDeleteBegin
    \/ RetagTagsDeleteFinish
    \/ RetagTagsUpdateBegin
    \/ RetagTagsUpdateValidate
    \/ RetagTagsUpdateAlreadyExists
    \/ RetagTagsUpdateFinish
    \/ RetagUntagMediaBegin
    \/ RetagUntagMediaTagsGet
    \/ RetagUntagMediaGet
    \/ RetagUntagMediaLoadMediaTags
    \/ RetagUntagMediaLoadTags
    \/ RetagUntagMediaFinish

SpecTagDelete == Init /\ [][NextTagDelete]_vars

----------------------------------------------------------------------------
(* The steps on which a call returns *)

\* the step leaves no call pending that it begins or continues: it is a
\* read, the step of a call on which a check refuses it, or the last step of
\* a call, and call' and result' are the call that returns on it and what
\* it returns
Returns ==
    \A c \in Callers : inflight'[c] # inflight[c] => inflight'[c] = Idle

----------------------------------------------------------------------------
(* Claims about base paths, under SpecPaths and SpecRegister *)

\* C3 (as claimed): in every reachable state no registered base path's path
\* is a strict string prefix of another registered base path's path.
C3_NoPrefixPair ==
    \A p, q \in base_paths :
        p.base_path # q.base_path => ~StartsWith(q.base_path, p.base_path)

\* C4 (as claimed): BasePaths.delete(id) on an existing base path that a
\* media row references returns InUse and leaves base paths and media rows
\* in place.
C4_DeleteReferencedIsInUse ==
    [][(/\ Returns
        /\ call'.op = "BasePaths.delete"
        /\ BasePathsGet(call'.args[1]).ok
        /\ \E m \in media : m.base_path_id = call'.args[1])
       => (/\ result' = Err(<<"InUse">>)
           /\ base_paths' = base_paths
           /\ media' = media)]_vars

\* C9 (as claimed): BasePaths.create with a path whose normalized form
\* equals a registered base path always fails with AlreadyExists and leaves
\* the base_paths table unchanged.
C9_DuplicateIsAlreadyExists ==
    [][(/\ Returns
        /\ call'.op = "BasePaths.create"
        /\ \E r \in base_paths : r.base_path = NormalizePath(call'.args[1]))
       => (/\ result' = Err(<<"AlreadyExists">>)
           /\ base_paths' = base_paths)]_vars

\* C9 (amended): BasePaths.create with a path whose normalized form equals a
\* registered base path never succeeds, never fails with IsSubPath and
\* leaves the base_paths table unchanged; it fails with AlreadyExists
\* whenever the call passes the checks that precede the scan (trimmed
\* description of at most 300 graphemes, path an existing absolute
\* directory).
C9_DuplicateNeverRegistered ==
    [][(Returns /\ call'.op = "BasePaths.create") =>
        \A bp \in {NormalizePath(call'.args[1])}, desc \in {Trim(call'.args[2])} :
            (\E r \in base_paths : r.base_path = bp)
            => (/\ ~result'.ok
                /\ result'.val # <<"IsSubPath">>
                /\ base_paths' = base_paths
                /\ (/\ GraphemeCount(desc) <= MAX_DESCRIPTION_LENGTH
                    /\ PathExists(bp)
                    /\ PathIsDir(bp)
                    /\ PathIsAbsolute(bp)
                    => result' = Err(<<"AlreadyExists">>)))]_vars

\* C9 witness: a create of "/a/b//" is refused with AlreadyExists while
\* "/a/b" and its prefix "/a" are both registered.
C9_Witness ==
    /\ call.op = "BasePaths.create"
    /\ call.args[1] # NormalizePath(call.args[1])
    /\ NormalizePath(call.args[1]) = P_ab
    /\ result = Err(<<"AlreadyExists">>)
    /\ \E r \in base_paths : r.base_path = P_ab
    /\ \E r \in base_paths : r.base_path = P_a

----------------------------------------------------------------------------
(* Claims about tagging *)

Range(f) == {f[i] : i \in DOMAIN f}

\* the media rows that carry every tag id of the sequence S
MediaWithEveryTag(S) ==
    {r \in media :
        \A i \in 1..Len(S) :
            \E mt \in media_tags : mt.media_id = r.id /\ mt.tag_id = S[i]}

\* C1: for every non-empty collection S of tag ids, list_media_from_tags(S)
\* returns exactly the existing media files that have an association row
\* with every tag id of S, each of them once.
C1_ListIsIntersection ==
    (call.op = "Media.list_media_from_tags" /\ call.args[1] # <<>>)
    => /\ result.ok
       /\ Range(result.val) = {LoadMediaFile(r) : r \in MediaWithEveryTag(call.args[1])}
       /\ Len(result.val) = Cardinality(MediaWithEveryTag(call.args[1]))

\* C1 witness: a query for two distinct tags returned one media file and
\* left out an existing media file that carries only one of the two.
C1_Witness ==
    /\ call.op = "Media.list_media_from_tags"
    /\ Cardinality(Range(call.args[1])) = 2
    /\ result.ok
    /\ Len(result.val) = 1
    /\ \E r \in media :
          /\ LoadMediaFile(r) \notin Range(result.val)
          /\ \E mt \in media_tags :
                mt.media_id = r.id /\ mt.tag_id \in Range(call.args[1])

\* C2 (as claimed): a successful untag_media(media_id, tag_id) removes
\* exactly the association (media_id, tag_id) and leaves every other
\* association row unchanged.
C2_UntagRemovesOnlyThatPair ==
    [][(Returns /\ call'.op = "Media.untag_media" /\ result'.ok)
       => media_tags' = {mt \in media_tags :
                            ~(mt.media_id = call'.args[1] /\ mt.tag_id = call'.args[2])}]_vars

\* C5 (as claimed): Media.delete(id) on an existing media file returns InUse
\* and changes nothing while the media file has an association row, and
\* succeeds and removes the media row once it has none.
C5_DeleteGuardedByAssociations ==
    [][(Returns /\ call'.op = "Media.delete" /\ MediaGet(call'.args[1]).ok)
       => IF \E mt \in media_tags : mt.media_id = call'.args[1]
          THEN /\ result' = Err(<<"InUse">>)
               /\ media' = media
               /\ media_tags' = media_tags
          ELSE /\ result' = Ok(Unit)
               /\ media' = {r \in media : r.id # call'.args[1]}]_vars

\* at most one association row per (media_id, tag_id) pair
UniqueAssociations ==
    \A a, b \in media_tags :
        (a.media_id = b.media_id /\ a.tag_id = b.tag_id) => a = b

\* C6 (as claimed): there is at most one association row per (media_id,
\* tag_id) pair, and insert_tag(m, t) when (m, t) already exists fails with
\* AlreadyTagged and leaves the association table unchanged.
C6_DuplicateIsAlreadyTagged ==
    /\ []UniqueAssociations
    /\ [][(/\ Returns
           /\ call'.op = "Media.insert_tag"
           /\ \E mt \in media_tags :
                 mt.media_id = call'.args[1] /\ mt.tag_id = call'.args[2])
          => (/\ result' = Err(<<"AlreadyTagged">>)
              /\ media_tags' = media_tags)]_vars

\* C6 (amended): there is at most one association row per (media_id, tag_id)
\* pair, and insert_tag(m, t) when (m, t) already exists fails and leaves the
\* association table unchanged; the error is AlreadyTagged whenever media
\* file m and tag t both still exist (the error of the missing endpoint
\* otherwise).
C6_DuplicateNeverInserted ==
    /\ []UniqueAssociations
    /\ [][(/\ Returns
           /\ call'.op = "Media.insert_tag"
           /\ \E mt \in media_tags :
                 mt.media_id = call'.args[1] /\ mt.tag_id = call'.args[2])
          => (/\ ~result'.ok
              /\ media_tags' = media_tags
              /\ (MediaGet(call'.args[1]).ok /\ TagsGet(call'.args[2]).ok
                  => result' = Err(<<"AlreadyTagged">>)))]_vars

\* C6 witness: insert_tag was refused with AlreadyTagged for a pair whose
\* association row exists.
C6_Witness ==
    /\ call.op = "Media.insert_tag"
    /\ result = Err(<<"AlreadyTagged">>)
    /\ \E mt \in media_tags :
          mt.media_id = call.args[1] /\ mt.tag_id = call.args[2]

----------------------------------------------------------------------------
(* Claims about tags, under SpecTags *)

\* no two tag rows share a (name, category_id) pair
UniqueTagNames ==
    \A a, b \in tags :
        (a.name = b.name /\ a.category_id = b.category_id) => a = b

\* the cleaned tag that the step's Tags.create or Tags.update call asks for
RequestedTag ==
    IF call'.op = "Tags.create"
    THEN TagClean(IntoTag(call'.args[1]))
    ELSE TagClean(TagWithNewData(TagsGet(call'.args[1]).val, call'.args[2]))

\* the step is a create, or an update of an existing tag, onto the
\* (name, category_id) pair of a different existing tag
OntoOtherTag ==
    \/ /\ call'.op = "Tags.create"
       /\ \E r \in tags : /\ r.name = RequestedTag.name
                           /\ r.category_id = RequestedTag.category_id
    \/ /\ call'.op = "Tags.update"
       /\ TagsGet(call'.args[1]).ok
       /\ \E r \in tags : /\ r.id # call'.args[1]
                           /\ r.name = RequestedTag.name
                           /\ r.category_id = RequestedTag.category_id

\* C7 (as claimed): no two tag rows share a (name, category_id) pair, and a
\* create, or an update that renames or moves a tag, onto the pair of a
\* different existing tag fails with AlreadyExists and leaves the tags table
\* unchanged.
C7_CollisionIsAlreadyExists ==
    /\ []UniqueTagNames
    /\ [][(Returns /\ OntoOtherTag) => (/\ result' = Err(<<"AlreadyExists">>)
                           /\ tags' = tags)]_vars

\* C7 (amended): no two tag rows share a (name, category_id) pair, and a
\* create, or an update that renames or moves a tag, onto the pair of a
\* different existing tag fails and leaves the tags table unchanged; the
\* error is AlreadyExists whenever the trimmed tag passes validation (the
\* validation error otherwise).
C7_CollisionNeverStored ==
    /\ []UniqueTagNames
    /\ [][(Returns /\ OntoOtherTag) => (/\ ~result'.ok
                           /\ tags' = tags
                           /\ (TagValidate(RequestedTag).ok
                               => result' = Err(<<"AlreadyExists">>)))]_vars

\* C7 witness: an update that renames or moves a tag onto the pair of a
\* different existing tag was refused with AlreadyExists.
C7_Witness ==
    /\ call.op = "Tags.update"
    /\ result = Err(<<"AlreadyExists">>)
    /\ \E own, other \in tags :
          /\ own.id = call.args[1]
          /\ other.id # own.id
          /\ <<own.name, own.category_id>> # <<other.name, other.category_id>>
          /\ other.name = TagClean(TagWithNewData(own, call.args[2])).name
          /\ other.category_id = TagWithNewData(own, call.args[2]).category_id

----------------------------------------------------------------------------
(* Claims about media files, under SpecFiles and SpecPatch *)

\* no two media rows share a (base_path_id, relative_path) pair, the relative
\* paths compared without leading and trailing '/'
UniqueMediaPaths ==
    \A a, b \in media :
        (/\ a.base_path_id = b.base_path_id
         /\ TrimMatches(a.relative_path, "/") = TrimMatches(b.relative_path, "/"))
        => a = b

\* the step is a Media.create with a pair that normalizes to a stored one
OntoOtherMedia ==
    /\ call'.op = "Media.create"
    /\ \E r \in media :
          /\ r.base_path_id = call'.args[1].base_path_id
          /\ TrimMatches(r.relative_path, "/")
                = TrimMatches(call'.args[1].relative_path, "/")

\* C8 (as claimed): no two media rows share a normalized (base_path_id,
\* relative_path) pair, and Media.create with a pair that normalizes to an
\* existing one fails with AlreadyExists and leaves the media table
\* unchanged.
C8_DuplicateIsAlreadyExists ==
    /\ []UniqueMediaPaths
    /\ [][(Returns /\ OntoOtherMedia) => (/\ result' = Err(<<"AlreadyExists">>)
                             /\ media' = media)]_vars

\* C8 (amended): no two media rows share a normalized (base_path_id,
\* relative_path) pair, and Media.create with a pair that normalizes to an
\* existing one fails and leaves the media table unchanged; the error is
\* AlreadyExists whenever the base path exists and the data passes
\* validation (the error of the failed check otherwise).
C8_DuplicateNeverStored ==
    /\ []UniqueMediaPaths
    /\ [][(Returns /\ OntoOtherMedia)
          => (/\ ~result'.ok
              /\ media' = media
              /\ (/\ BasePathsGet(call'.args[1].base_path_id).ok
                  /\ MediaFileValidate(MediaFileFrom(call'.args[1])).ok
                  => result' = Err(<<"AlreadyExists">>)))]_vars

\* C8 witness: a create whose relative path carries leading and trailing '/'
\* was refused with AlreadyExists because of the stored stripped pair.
C8_Witness ==
    /\ call.op = "Media.create"
    /\ result = Err(<<"AlreadyExists">>)
    /\ call.args[1].relative_path # TrimMatches(call.args[1].relative_path, "/")
    /\ \E r \in media :
          /\ r.base_path_id = call.args[1].base_path_id
          /\ r.relative_path = TrimMatches(call.args[1].relative_path, "/")

\* the stored row r after the fields that the patch p sets are assigned
Patched(r, p) ==
    [id |-> r.id,
     relative_path |-> r.relative_path,
     base_path_id |-> r.base_path_id,
     width |-> IF p.width # None THEN p.width ELSE r.width,
     height |-> IF p.height # None THEN p.height ELSE r.height,
     size |-> IF p.size # None THEN p.size[1] ELSE r.size,
     mark |-> IF p.mark # None THEN p.mark ELSE r.mark,
     description |-> IF p.description # None THEN p.description[1] ELSE r.description,
     media_type |-> r.media_type]

\* C10: a successful Media.update(id, patch) assigns, on row id only, the
\* fields among width, height, size, mark, description that the patch sets;
\* the other fields of the row and every other media row are unchanged, and
\* a patch with every field None leaves the row unchanged.
C10_UpdateFrame ==
    [][(Returns /\ call'.op = "Media.update" /\ result'.ok)
       => (/\ media' = {IF r.id = call'.args[1] THEN Patched(r, call'.args[2]) ELSE r :
                           r \in media}
           /\ (call'.args[2] = NoUpdate => media' = media))]_vars

\* C10 witness: an update that set the width and not the mark succeeded on a
\* row that keeps its earlier mark and description, next to another row of
\* another width.
C10_Witness ==
    /\ call.op = "Media.update"
    /\ result.ok
    /\ call.args[2].width # None
    /\ call.args[2].mark = None
    /\ \E r, o \in media :
          /\ r.id = call.args[1]
          /\ r.width = call.args[2].width
          /\ r.mark # None
          /\ r.description # <<>>
          /\ o.id # r.id
          /\ o.width # r.width

----------------------------------------------------------------------------
(* Claims about updates of tags, under SpecTags *)

\* C11 (as claimed): Tags.update(id, patch) on an existing tag whose category
\* exists, with a patch that sets neither name nor category_id (and a
\* description, if set, of at most 300 bytes once trimmed), succeeds and
\* changes only the description of that tag when the patch sets it.
C11_OwnPairIsNoConflict ==
    [][(/\ Returns
        /\ call'.op = "Tags.update"
        /\ TagsGet(call'.args[1]).ok
        /\ call'.args[2].name = None
        /\ call'.args[2].category_id = None
        /\ TagCategoriesGet(TagsGet(call'.args[1]).val.category_id).ok
        /\ (call'.args[2].description # None
            => ByteLen(Trim(call'.args[2].description[1])) <= MAX_DESCRIPTION_LENGTH))
       => (/\ result' = Ok(Unit)
           /\ tags' = {IF r.id = call'.args[1] /\ call'.args[2].description # None
                       THEN [r EXCEPT !.description = Trim(call'.args[2].description[1])]
                       ELSE r : r \in tags})]_vars

----------------------------------------------------------------------------
(* Claims about tag categories, under SpecCategories *)

\* the stored category r after the fields that the patch p sets are
\* assigned, their names and descriptions trimmed and their colors in lower
\* case; the fields that p leaves unset are those of r
PatchedCategory(r, p) ==
    [id |-> r.id,
     name |-> IF p.name # None THEN Trim(p.name[1]) ELSE r.name,
     color |-> IF p.color # None THEN ToAsciiLowercase(p.color[1]) ELSE r.color,
     description |-> IF p.description # None THEN Trim(p.description[1])
                     ELSE r.description]

\* a category record is valid: name of 1 to 50 graphemes, description of at
\* most 300 graphemes, a color that parses
ValidCategory(c) ==
    /\ c.name # <<>>
    /\ GraphemeCount(c.name) <= MAX_NAME_LENGTH
    /\ GraphemeCount(c.description) <= MAX_DESCRIPTION_LENGTH
    /\ ColorHex(c.color) = "Ok"

\* C12 (as claimed): TagCategories.update(id, patch) on an existing
\* category validates the merged record: when it is valid the update
\* succeeds, the patched fields of row id take the cleaned patch values, its
\* unset fields and every other row keep their values; when it is invalid
\* the update fails and the table is unchanged.
C12_UpdateValidatesMerged ==
    [][(/\ Returns
        /\ call'.op = "TagCategories.update"
        /\ TagCategoriesGet(call'.args[1]).ok)
       => \A merged \in {PatchedCategory(TagCategoriesGet(call'.args[1]).val,
                                          call'.args[2])} :
             IF ValidCategory(merged)
             THEN /\ result' = Ok(Unit)
                  /\ tag_categories' =
                        {IF r.id = merged.id THEN merged ELSE r : r \in tag_categories}
             ELSE /\ ~result'.ok
                  /\ tag_categories' = tag_categories]_vars

----------------------------------------------------------------------------
(* Claims about reading back what was created, under SpecReadBack *)

\* C13: a successful create of a base path, a tag or a media file followed
\* immediately by get(returned id) yields the requested fields after
\* normalization (strings trimmed, trailing '/' of a base path and
\* surrounding '/' of a relative path stripped), and for a media file
\* get_by_relative_path(base_path_id, relative_path) yields the same record.
C13_CreateThenGet ==
    [][/\ (/\ call.op = "BasePaths.create" /\ result.ok
           /\ call'.op = "BasePaths.get" /\ call'.args[1] = result.val.id)
          => result' = Ok([id |-> result.val.id,
                           base_path |-> TrimEndMatches(Trim(call.args[1]), "/"),
                           description |-> Trim(call.args[2])])
       /\ (/\ call.op = "Tags.create" /\ result.ok
           /\ call'.op = "Tags.get" /\ call'.args[1] = result.val.id)
          => result' = Ok([id |-> result.val.id,
                           name |-> Trim(call.args[1].name),
                           category_id |-> call.args[1].category_id,
                           description |-> Trim(call.args[1].description)])
       /\ (/\ call.op = "Media.create" /\ result.ok
           /\ \/ call'.op = "Media.get" /\ call'.args[1] = result.val.id
              \/ /\ call'.op = "Media.get_by_relative_path"
                 /\ call'.args[1] = call.args[1].base_path_id
                 /\ TrimMatches(call'.args[2], "/")
                       = TrimMatches(call.args[1].relative_path, "/"))
          => result' = Ok([id |-> result.val.id,
                           relative_path |-> TrimMatches(call.args[1].relative_path, "/"),
                           base_path_id |-> call.args[1].base_path_id,
                           width |-> call.args[1].width,
                           height |-> call.args[1].height,
                           size |-> call.args[1].size,
                           mark |-> call.args[1].mark,
                           description |-> Trim(call.args[1].description),
                           media_type |-> call.args[1].media_type])]_vars

\* C13 witness: get_by_relative_path with a path that carries surrounding
\* '/' returned the media file created last, of an unknown media type, its
\* stored path stripped and its description trimmed.
C13_Witness ==
    /\ call.op = "Media.get_by_relative_path"
    /\ result.ok
    /\ call.args[2] # result.val.relative_path
    /\ result.val.id = Max(Ids(media))
    /\ result.val.media_type = "Unknown"
    /\ result.val.description = <<"e">>
    /\ Cardinality(media) = 2

----------------------------------------------------------------------------
(* Claims about failed calls, under SpecWrites *)

\* C14: every call of a writing operation that returns an error leaves all
\* five tables exactly as they were before the call.
C14_ErrorLeavesTablesUnchanged ==
    [][(Returns /\ ~result'.ok) => tables' = tables]_vars

\* C14 witness: Tags.create was refused by its last check, the uniqueness
\* check, on a store that holds base paths, a media file, tags and an
\* association.
C14_Witness ==
    /\ call.op = "Tags.create"
    /\ result = Err(<<"AlreadyExists">>)
    /\ base_paths # {}
    /\ media # {}
    /\ media_tags # {}

----------------------------------------------------------------------------
(* Claims about two callers, under SpecRace *)

\* the rows of the tables bps, tgs, med, mts that carry the key of the
\* pending call p
RowsWithKey(p, bps, tgs, med, mts) ==
    CASE p.op = "BasePaths.create" ->
           {r \in bps : r.base_path = p.val.base_path}
      [] p.op = "Tags.create" ->
           {r \in tgs : r.name = p.val.name /\ r.category_id = p.val.category_id}
      [] p.op = "Media.create" ->
           {r \in med : /\ r.base_path_id = p.val.base_path_id
                        /\ r.relative_path = p.val.relative_path}
      [] p.op = "Media.insert_tag" ->
           {r \in mts : r.media_id = p.val.media_id /\ r.tag_id = p.val.tag_id}

\* each of the four tables holds two rows for one key
TwoRowsPerKey(bps, tgs, med, mts) ==
    /\ \E a, b \in bps : a.id # b.id /\ a.base_path = b.base_path
    /\ \E a, b \in tgs : a.id # b.id /\ a.name = b.name /\ a.category_id = b.category_id
    /\ \E a, b \in med : /\ a.id # b.id /\ a.base_path_id = b.base_path_id
                          /\ a.relative_path = b.relative_path
    /\ \E a, b \in mts : a.id # b.id /\ a.media_id = b.media_id /\ a.tag_id = b.tag_id

\* C15: when the checks of BasePaths.create, Tags.create, Media.create or
\* Media.insert_tag have passed for a caller, its insert succeeds and adds a
\* row for the key whatever the other caller has inserted since; so when two
\* callers' checks for one key pass before either insert, both calls succeed
\* and the store ends with two rows for the key.
C15_InsertAfterCheckSucceeds ==
    [][\A c \in Callers :
          (/\ inflight[c].op \in {"BasePaths.create", "Tags.create", "Media.create",
                                  "Media.insert_tag"}
           /\ inflight'[c] = Idle)
          => /\ result'.ok
             /\ call' = [op |-> inflight[c].op, args |-> inflight[c].args]
             /\ Cardinality(RowsWithKey(inflight[c], base_paths', tags', media',
                                         media_tags'))
                  = Cardinality(RowsWithKey(inflight[c], base_paths, tags, media,
                                            media_tags)) + 1]_vars

\* C15 witness: both callers' calls have returned and each of base_paths,
\* tags, media and media_tags holds two rows for one key.
C15_Witness ==
    /\ \A c \in Callers : inflight[c] = Idle
    /\ result.ok
    /\ TwoRowsPerKey(base_paths, tags, media, media_tags)

\* C16: when the in-use check of BasePaths.delete or Media.delete has passed
\* for a caller, its delete completes and removes the row whatever the
\* other caller has inserted since, and leaves what was inserted in place;
\* so when the check passes before the other caller's insert, a media row
\* or an association is left that references a row that no longer exists.
C16_DeleteAfterCheckCompletes ==
    [][\A c \in Callers :
          (inflight[c].op \in {"BasePaths.delete", "Media.delete"} /\ inflight'[c] = Idle)
          => /\ result' = Ok(Unit)
             /\ call' = [op |-> inflight[c].op, args |-> inflight[c].args]
             /\ media_tags' = media_tags
             /\ IF inflight[c].op = "BasePaths.delete"
                THEN /\ base_paths' = {r \in base_paths : r.id # inflight[c].val.id}
                     /\ media' = media
                ELSE /\ media' = {r \in media : r.id # inflight[c].val.id}
                     /\ base_paths' = base_paths]_vars

\* C16 witness: all calls have returned, a media row references a base path
\* that no longer exists and an association references a media file that no
\* longer exists; each delete was begun while nothing referenced its row.
C16_Witness ==
    /\ \A c \in Callers : inflight[c] = Idle
    /\ \E m \in media : ~\E b \in base_paths : b.id = m.base_path_id
    /\ \E mt \in media_tags : ~\E m \in media : m.id = mt.media_id

----------------------------------------------------------------------------
(* Referential integrity of media rows, under SpecPaths *)

\* C17 (as claimed): under sequential execution, in every state reachable
\* through Media.create, Media.delete, BasePaths.create and BasePaths.delete,
\* every media row's base_path_id is the id of an existing base path row.
C17_MediaBasePathExists ==
    \A m \in media : \E b \in base_paths : b.id = m.base_path_id

----------------------------------------------------------------------------
(* The order of the checks of insert_tag and untag_media, under SpecRetag *)

\* C18: Media.insert_tag(media_id, tag_id) checks in order the media file
\* (InvalidID for an id <= 0, NotFound for an absent row), the tag (TagError
\* wrapping the error of Tags.get), the existing association (AlreadyTagged);
\* each failure changes nothing, and success adds exactly one row
\* (media_id, tag_id) and changes nothing else.
C18_InsertTagChecksInOrder ==
    [][(Returns /\ call'.op = "Media.insert_tag") =>
        LET m == call'.args[1]
            t == call'.args[2]
            fresh == media_tags' \ media_tags
        IN  IF m <= 0
            THEN result' = Err(<<"InvalidID">>) /\ tables' = tables
            ELSE IF ~\E r \in media : r.id = m
            THEN result' = Err(<<"NotFound">>) /\ tables' = tables
            ELSE IF t <= 0
            THEN result' = Err(<<"TagError", "InvalidID">>) /\ tables' = tables
            ELSE IF ~\E r \in tags : r.id = t
            THEN result' = Err(<<"TagError", "NotFound">>) /\ tables' = tables
            ELSE IF \E mt \in media_tags : mt.media_id = m /\ mt.tag_id = t
            THEN result' = Err(<<"AlreadyTagged">>) /\ tables' = tables
            ELSE /\ result' = Ok(Unit)
                 /\ media_tags \subseteq media_tags'
                 /\ Cardinality(fresh) = 1
                 /\ \A mt \in fresh : mt.media_id = m /\ mt.tag_id = t
                 /\ <<base_paths, tag_categories, tags, media>>' =
                        <<base_paths, tag_categories, tags, media>>]_vars

\* C18 witness: insert_tag succeeded for a pair of an existing media file
\* and an existing tag next to an older association of the media file.
C18_Witness ==
    /\ call.op = "Media.insert_tag"
    /\ result = Ok(Unit)
    /\ \E r \in media : r.id = call.args[1]
    /\ \E r \in tags : r.id = call.args[2]
    /\ Cardinality({mt \in media_tags :
                       mt.media_id = call.args[1] /\ mt.tag_id = call.args[2]}) = 1
    /\ \E mt \in media_tags :
          mt.media_id = call.args[1] /\ mt.tag_id # call.args[2]

----------------------------------------------------------------------------
(* Removing an association that is not there, under SpecUntag *)

\* C19: Media.untag_media(media_id, tag_id) when the media file and the tag
\* both exist but no association (media_id, tag_id) exists fails with
\* TagNotFound and leaves the association table unchanged.
C19_UntagAbsentIsTagNotFound ==
    [][(/\ Returns
        /\ call'.op = "Media.untag_media"
        /\ \E r \in media : r.id = call'.args[1]
        /\ \E r \in tags : r.id = call'.args[2]
        /\ ~\E mt \in media_tags :
              mt.media_id = call'.args[1] /\ mt.tag_id = call'.args[2])
       => (/\ result' = Err(<<"TagNotFound">>)
           /\ media_tags' = media_tags)]_vars

\* C19 witness: untag_media was refused with TagNotFound for an existing
\* media file and an existing tag, while the media file carries another tag
\* and the tag is on another media file.
C19_Witness ==
    /\ call.op = "Media.untag_media"
    /\ result = Err(<<"TagNotFound">>)
    /\ \E r \in media : r.id = call.args[1]
    /\ \E r \in tags : r.id = call.args[2]
    /\ ~\E mt \in media_tags :
          mt.media_id = call.args[1] /\ mt.tag_id = call.args[2]
    /\ \E mt \in media_tags :
          mt.media_id = call.args[1] /\ mt.tag_id # call.args[2]
    /\ \E mt \in media_tags :
          mt.media_id # call.args[1] /\ mt.tag_id = call.args[2]

----------------------------------------------------------------------------
(* Repeated and reordered tag ids in a query, under SpecQuery *)

\* the number of distinct tag ids of S that media row r carries
MatchCount(r, S) ==
    Cardinality({mt.tag_id : mt \in {x \in media_tags :
                                        x.media_id = r.id /\ x.tag_id \in Range(S)}})

\* C20: Media.list_media_from_tags depends only on the set of distinct tag
\* ids of its input: every input with the same ids, in another order or with
\* other multiplicities, returns the same result on the same store, and a
\* media file is returned when it matches as many ids as the input has
\* distinct ids, whatever the input's length.
C20_ListDependsOnIdSet ==
    call.op = "Media.list_media_from_tags"
    => /\ \A s \in TagSeqInputs :
             Range(s) = Range(call.args[1]) => ListMediaFromTags(s) = result
       /\ call.args[1] # <<>>
          => /\ result.ok
             /\ Range(result.val) =
                   {LoadMediaFile(r) :
                       r \in {x \in media :
                                 MatchCount(x, call.args[1]) =
                                     Cardinality(Range(call.args[1]))}}

\* C20 witness: a query whose input repeats a tag id out of order returned a
\* media file that carries both of its distinct ids.
C20_Witness ==
    /\ call.op = "Media.list_media_from_tags"
    /\ Len(call.args[1]) = 3
    /\ Cardinality(Range(call.args[1])) = 2
    /\ call.args[1][1] > call.args[1][2]
    /\ result.ok
    /\ Len(result.val) >= 1

----------------------------------------------------------------------------
(* Media types and their stored strings *)

\* stored strings: the three literals, the empty string, and strings that
\* differ from a literal by case, by a suffix or by a leading blank
StoredTypeInputs ==
    {"image", "video", "sound", "", "Image", "VIDEO", "sounds", " image", "unknown"}

\* String::from(MediaType)
MediaTypeToStringCall(t) ==
    /\ call' = [op |-> "String.from", args |-> <<t>>]
    /\ result' = Ok(MediaTypeToString(t))
    /\ UNCHANGED <<tables, inflight>>

\* String::into() -> MediaType
StringToMediaTypeCall(s) ==
    /\ call' = [op |-> "String.into", args |-> <<s>>]
    /\ result' = Ok(StringToMediaType(s))
    /\ UNCHANGED <<tables, inflight>>

TypesBasePath == BasePathsCreateBegin(1, P_a, <<>>)

TypesMediaCreate ==
    /\ NextId(media) <= MaxMediaId
    /\ \E rp \in MediaPathInputs, t \in MediaTypes :
          MediaCreateBegin(1, [NewMedia(rp, 1) EXCEPT !.media_type = t])

TypesMediaGet == \E id \in MediaIdInputs : MediaGetCall(id)

TypesToString == \E t \in MediaTypes : MediaTypeToStringCall(t)

TypesFromString == \E s \in StoredTypeInputs : StringToMediaTypeCall(s)

NextTypes ==
    \/ TypesBasePath
    \/ TypesMediaCreate
    \/ TypesMediaGet
    \/ TypesToString
    \/ TypesFromString
    \/ BasePathsCreateInsert(1)
    \/ MediaCreateFirst(1)
    \/ MediaCreateInsert(1)

SpecTypes == Init /\ [][NextTypes]_vars

\* the stored string the claim gives for each variant
TypeLiteral(t) ==
    CASE t = "Image" -> "image"
      [] t = "Video" -> "video"
      [] t = "Sound" -> "sound"
      [] t = "Unknown" -> ""

\* C21: each of the four MediaType variants converts to its stored string
\* ("image", "video", "sound", "" for Unknown) and back to itself, every
\* stored string other than the three literals deserializes to Unknown, and
\* a media file read back from the store has the variant it was created
\* with.
C21_MediaTypeRoundTrip ==
    /\ call.op = "String.from"
       => /\ result.val = TypeLiteral(call.args[1])
          /\ StringToMediaType(result.val) = call.args[1]
    /\ call.op = "String.into"
       => /\ call.args[1] \notin {"image", "video", "sound"} => result.val = "Unknown"
          /\ call.args[1] \in {"image", "video", "sound"}
             => TypeLiteral(result.val) = call.args[1]
    /\ \A r \in media : r.media_type \in {TypeLiteral(t) : t \in MediaTypes}
    /\ (call.op = "Media.create" /\ result.ok)
       => /\ result.val.media_type = call.args[1].media_type
          /\ \E r \in media :
                r.id = result.val.id /\ r.media_type = TypeLiteral(call.args[1].media_type)
    /\ (call.op = "Media.get" /\ result.ok)
       => \E r \in media :
             r.id = call.args[1] /\ TypeLiteral(result.val.media_type) = r.media_type

\* C21 witness: a media file created as Sound and one created as Unknown are
\* stored as "sound" and "", and the Sound one was read back as Sound.
C21_Witness ==
    /\ call.op = "Media.get"
    /\ result.ok
    /\ result.val.media_type = "Sound"
    /\ \E r \in media : r.id = call.args[1] /\ r.media_type = "sound"
    /\ \E r \in media : r.media_type = ""

----------------------------------------------------------------------------
(* Listing the media files, under SpecMediaList *)

MediaListBasePath == \E p \in {P_a, P_c} : BasePathsCreateBegin(1, p, <<>>)

MediaListCreate ==
    /\ NextId(media) <= MaxMediaId
    /\ \E rp \in MediaPathInputs, bp \in BasePathIdInputs : MediaCreateBegin(1, NewMedia(rp, bp))

MediaListDelete == \E id \in MediaIdInputs : MediaDeleteBegin(1, id)

MediaListList == \E bp \in 0..(MaxBasePathId + 1) : MediaListBegin(1, bp)

NextMediaList ==
    \/ MediaListBasePath
    \/ MediaListCreate
    \/ MediaListDelete
    \/ MediaListList
    \/ BasePathsCreateInsert(1)
    \/ MediaCreateFirst(1)
    \/ MediaCreateInsert(1)
    \/ MediaDeleteFinish(1)
    \/ MediaListFinish(1)

SpecMediaList == Init /\ [][NextMediaList]_vars

\* C22: Media.list(base_path_id) fails with BasePathsError when
\* base_path_id does not resolve to an existing base path; otherwise it
\* returns every media row of the store, rows of other base paths included,
\* sorted by id ascending.
C22_ListReturnsEveryRow ==
    call.op = "Media.list"
    => IF \E b \in base_paths : b.id = call.args[1]
       THEN /\ result.ok
            /\ Range(result.val) = {LoadMediaFile(r) : r \in media}
            /\ Len(result.val) = Cardinality(media)
            /\ \A i, j \in 1..Len(result.val) :
                  i < j => result.val[i].id < result.val[j].id
       ELSE /\ ~result.ok
            /\ result.val[1] = "BasePathsError"

\* C22 witness: Media.list of one base path returned two media files, one
\* of them of the other base path.
C22_Witness ==
    /\ call.op = "Media.list"
    /\ result.ok
    /\ Len(result.val) = 2
    /\ \E i \in 1..2 : result.val[i].base_path_id = call.args[1]
    /\ \E i \in 1..2 : result.val[i].base_path_id # call.args[1]

----------------------------------------------------------------------------
(* Listing base paths and tag categories by id, under SpecLists *)

\* the ids argument: absent, empty, one id, a repeated id, two ids out of
\* order, a stored id next to one that is never assigned
IdsInputs ==
    {None, Some(<<>>), Some(<<2>>), Some(<<1, 1>>), Some(<<2, 1>>),
     Some(<<1, MaxCategoryId + 1>>)}

ListsBasePathsCreate == \E p \in {P_a, P_c} : BasePathsCreateBegin(1, p, <<>>)

ListsBasePathsDelete ==
    \E id \in BasePathIdInputs : BasePathsDeleteBegin(1, id)

ListsCategoriesDelete == \E id \in CategoryIdInputs : TagCategoriesDeleteBegin(1, id)

ListsBasePathsList == \E ids \in IdsInputs : BasePathsListCall(ids)

ListsCategoriesList == \E ids \in IdsInputs : TagCategoriesListCall(ids)

NextLists ==
    \/ ListsBasePathsCreate
    \/ ListsBasePathsDelete
    \/ ListsCategoriesDelete
    \/ ListsBasePathsList
    \/ ListsCategoriesList
    \/ BasePathsCreateInsert(1)
    \/ BasePathsDeleteFinish(1)
    \/ TagCategoriesDeleteFinish(1)

SpecLists == Init /\ [][NextLists]_vars

\* the rows of a table that list(ids) is claimed to return
ListedRows(table, ids) ==
    IF ids = None \/ ids = Some(<<>>)
    THEN table
    ELSE {r \in table : r.id \in Range(ids[1])}

\* C23: BasePaths.list(ids) and TagCategories.list(ids) return rows sorted
\* by id ascending without duplicates: every row of the table when ids is
\* None or empty, otherwise exactly the rows whose id is in ids, ids that
\* match no row being omitted.
C23_ListByIds ==
    call.op \in {"BasePaths.list", "TagCategories.list"}
    => LET table == IF call.op = "BasePaths.list" THEN base_paths ELSE tag_categories
           rows == ListedRows(table, call.args[1])
       IN  /\ result.ok
           /\ Range(result.val) = rows
           /\ Len(result.val) = Cardinality(rows)
           /\ \A i, j \in 1..Len(result.val) :
                 i < j => result.val[i].id < result.val[j].id

\* C23 witness: BasePaths.list with ids 1 and an id that matches no row
\* returned the one row of id 1 and left out the stored row of id 2.
C23_Witness ==
    /\ call.op = "BasePaths.list"
    /\ call.args[1] = Some(<<1, MaxCategoryId + 1>>)
    /\ Len(result.val) = 1
    /\ result.val[1].id = 1
    /\ \E r \in base_paths : r.id = 2

----------------------------------------------------------------------------
(* Listing the tags, under SpecTagListing *)

\* names whose ascending order differs from the order of creation, one a
\* prefix of another
ListedNameInputs == {<<"u">>, <<"t">>, <<"t", "u">>}

TagListCreate ==
    /\ NextId(tags) <= MaxTagId
    /\ \E n \in ListedNameInputs, c \in {1, 2} : TagsCreateBegin(1, NewTag(n, c))

TagListCategoriesDelete == \E id \in {0, 2} : TagCategoriesDeleteBegin(1, id)

TagListListBegin ==
    \E category \in {None} \cup {Some(c) : c \in CategoryIdInputs} :
        TagsListBegin(1, category)

\* tags that a caller creates and lists by category, and categories that it
\* deletes, call after call
NextTagListing ==
    \/ TagListCreate
    \/ TagListCategoriesDelete
    \/ TagListListBegin
    \/ TagsCreateAlreadyExists(1)
    \/ TagsCreateInsert(1)
    \/ TagCategoriesDeleteFinish(1)
    \/ TagsListFinish(1)

SpecTagListing == Init /\ [][NextTagListing]_vars

\* the other caller deletes the second category, or updates its name,
\* between the statements of the first
TagListCategoriesDeleteBegin == TagCategoriesDeleteBegin(2, 2)

TagListCategoriesDeleteFinish == TagCategoriesDeleteFinish(2)

TagListCategoriesUpdateBegin ==
    TagCategoriesUpdateBegin(2, 2, [NoCategoryUpdate EXCEPT !.name = Some(<<" ", "n">>)])

TagListCategoriesUpdateFinish == TagCategoriesUpdateFinish(2)

NextTagList ==
    \/ TagListCreate
    \/ TagListCategoriesDelete
    \/ TagListListBegin
    \/ TagsCreateAlreadyExists(1)
    \/ TagsCreateInsert(1)
    \/ TagCategoriesDeleteFinish(1)
    \/ TagsListFinish(1)
    \/ TagListCategoriesDeleteBegin
    \/ TagListCategoriesDeleteFinish
    \/ TagListCategoriesUpdateBegin
    \/ TagListCategoriesUpdateFinish

SpecTagList == Init /\ [][NextTagList]_vars

----------------------------------------------------------------------------
(* Tags and the category they are written with, under SpecTags *)

\* C25 (as claimed): Tags.create, and Tags.update of an existing tag that
\* sets category_id, with a category_id > 0 that is not a stored category
\* fails with CategoryNotFound and inserts or changes no tag row.
C25_MissingCategoryIsCategoryNotFound ==
    [][LET c == IF call'.op = "Tags.create" THEN Some(call'.args[1].category_id)
                ELSE IF call'.op = "Tags.update" /\ TagsGet(call'.args[1]).ok
                THEN call'.args[2].category_id
                ELSE None
       IN  (Returns /\ c # None /\ c[1] > 0 /\ ~\E k \in tag_categories : k.id = c[1])
           => (result' = Err(<<"CategoryNotFound">>) /\ tags' = tags)]_vars

----------------------------------------------------------------------------
(* Searching tags and categories by a name prefix, under SpecSearch *)

\* names that share the prefix "ab" up to case, one with a blank inside,
\* and one that begins with an upper case letter outside ASCII
SearchedNameInputs ==
    {<<"a", "b", "c", "d">>, <<"A", "b", "c">>, <<"a", "b", " ", "c">>,
     <<"U+00C9", "b", "c">>}

\* prefixes: two graphemes, three, three in another case behind a form
\* feed, three of which the last is a blank, three that match no name,
\* three characters that are two graphemes (a combining mark, a CR LF),
\* and the lower case of the name outside ASCII
PrefixInputs ==
    {<<"a", "b">>, <<"a", "b", "c">>, <<"\f", "A", "B", "C">>, <<"a", "b", " ">>,
     <<"a", "b", "x">>, <<"a", "b", "U+0301">>, <<"a", "\r", "\n">>,
     <<"U+00E9", "b", "c">>}

SearchTagsCreate ==
    /\ NextId(tags) <= MaxTagId
    /\ \E n \in SearchedNameInputs : TagsCreateBegin(1, NewTag(n, 1))

SearchCategoriesUpdate ==
    \E id \in {1, 2}, n \in SearchedNameInputs :
        TagCategoriesUpdateBegin(1, id, [NoCategoryUpdate EXCEPT !.name = Some(n)])

SearchTags == \E p \in PrefixInputs : TagsSearchByNameCall(p)

SearchCategories == \E p \in PrefixInputs : TagCategoriesSearchByNameCall(p)

NextSearch ==
    \/ SearchTagsCreate
    \/ SearchCategoriesUpdate
    \/ SearchTags
    \/ SearchCategories
    \/ TagCategoriesUpdateFinish(1)
    \/ TagsCreateAlreadyExists(1)
    \/ TagsCreateInsert(1)

SpecSearch == Init /\ [][NextSearch]_vars

\* what a search for prefix p over a table is claimed to return, with the
\* case folding Fold
SearchOutcome(p, table, too_short, Fold(_)) ==
    IF GraphemeCount(p) < 3
    THEN result = Err(<<too_short>>)
    ELSE /\ result.ok
         /\ Range(result.val) = {r \in table : StartsWith(Fold(r.name), Fold(p))}
         /\ Len(result.val) = Cardinality(Range(result.val))

\* C26 (as claimed): Tags.search_by_name and TagCategories.search_by_name
\* fail with InvalidName / NameToSearchTooShort when the prefix has fewer
\* than 3 graphemes; otherwise they return exactly the rows whose name
\* starts with the prefix under case-insensitive comparison.
C26_SearchByPrefix ==
    /\ call.op = "Tags.search_by_name"
       => SearchOutcome(call.args[1], tags, "InvalidName", ToLowercase)
    /\ call.op = "TagCategories.search_by_name"
       => SearchOutcome(call.args[1], tag_categories, "NameToSearchTooShort",
                        ToLowercase)

----------------------------------------------------------------------------
(* The order of the checks of BasePaths.create, under SpecRegister *)

\* the first failing check of BasePaths.create in the claimed order, or
\* <<>> when every check passes
FirstFailingCheck(bp, desc) ==
    IF bp = <<>> THEN <<"InvalidPath">>
    ELSE IF GraphemeCount(desc) > MAX_DESCRIPTION_LENGTH THEN <<"DescriptionTooLong">>
    ELSE IF ~PathExists(bp) THEN <<"NotExists">>
    ELSE IF ~PathIsDir(bp) THEN <<"NotADirectory">>
    ELSE IF ~PathIsAbsolute(bp) THEN <<"NotAbsolute">>
    ELSE IF \E r \in base_paths : r.base_path = bp THEN <<"AlreadyExists">>
    ELSE IF \E r \in base_paths : StartsWith(bp, r.base_path) THEN <<"IsSubPath">>
    ELSE <<>>

\* C27: BasePaths.create reports the first failing check in the order empty
\* normalized path (InvalidPath), description longer than 300
\* (DescriptionTooLong), path missing (NotExists), not a directory
\* (NotADirectory), not absolute (NotAbsolute), registered path equal
\* (AlreadyExists), registered path a prefix (IsSubPath); a row is inserted
\* only when every check passes.
C27_CreateReportsFirstFailingCheck ==
    [][(Returns /\ call'.op = "BasePaths.create") =>
        \A bp \in {NormalizePath(call'.args[1])}, desc \in {Trim(call'.args[2])} :
            \A failing \in {FirstFailingCheck(bp, desc)} :
                IF failing # <<>>
                THEN result' = Err(failing) /\ base_paths' = base_paths
                ELSE /\ result'.ok
                     /\ result'.val.base_path = bp
                     /\ result'.val.description = desc
                     /\ result'.val \notin base_paths
                     /\ base_paths' = base_paths \cup {result'.val}]_vars

\* C27 witness: a create whose description is too long and whose path is
\* missing on disk was refused with DescriptionTooLong on a store that holds
\* a base path.
C27_Witness ==
    /\ call.op = "BasePaths.create"
    /\ result = Err(<<"DescriptionTooLong">>)
    /\ ~PathExists(NormalizePath(call.args[1]))
    /\ base_paths # {}

----------------------------------------------------------------------------
(* The attribute constraints of media rows, under SpecAttributes *)

\* CreateMediaFile values: a valid one, and ones that differ from it in one
\* field; a size that is NaN passes the validation and is refused by the
\* store
CreateMediaFileInputs ==
    {NewMedia(<<"x">>, 1),
     NewMedia(<<"/", "x", "/">>, 1),
     NewMedia(<<"/">>, 1),
     NewMedia(<<"x">>, 0),
     [NewMedia(<<"x">>, 1) EXCEPT !.width = Some(0)],
     [NewMedia(<<"x">>, 1) EXCEPT !.width = Some(5), !.height = Some(-1)],
     [NewMedia(<<"x">>, 1) EXCEPT !.size = F64(0)],
     [NewMedia(<<"x">>, 1) EXCEPT !.size = NaN],
     [NewMedia(<<"x">>, 1) EXCEPT !.mark = Some(0)],
     [NewMedia(<<"x">>, 1) EXCEPT !.mark = Some(1)],
     [NewMedia(<<"x">>, 1) EXCEPT !.mark = Some(11)],
     [NewMedia(<<"x">>, 1) EXCEPT !.description = LongDescription],
     [NewMedia(<<"x">>, 1) EXCEPT !.description = CrLfDescription],
     [NewMedia(<<"x">>, 1) EXCEPT !.description = <<"\f", "d", " ">>]}

\* UpdateMediaFile values, with a height and a mark that are not positive
\* and a size that is NaN
AttributeUpdateInputs ==
    UpdateMediaFileInputs
        \cup {[NoUpdate EXCEPT !.height = Some(0)], [NoUpdate EXCEPT !.mark = Some(0)],
              [NoUpdate EXCEPT !.size = Some(NaN)]}

AttributesBasePath == BasePathsCreateBegin(1, P_a, <<>>)

\* Media::create of the one media file of the store
AttributesMediaCreate ==
    /\ media = {}
    /\ \E c \in CreateMediaFileInputs : MediaCreateBegin(1, c)

AttributesMediaUpdate ==
    \E id \in {0, 1, MaxMediaId}, u \in AttributeUpdateInputs : MediaUpdateBegin(1, id, u)

NextAttributes ==
    \/ AttributesBasePath
    \/ AttributesMediaCreate
    \/ AttributesMediaUpdate
    \/ BasePathsCreateInsert(1)
    \/ MediaCreateFirst(1)
    \/ MediaCreateInsert(1)
    \/ MediaUpdateFinish(1)

SpecAttributes == Init /\ [][NextAttributes]_vars

\* the attribute constraints of a media record
ValidMediaRow(r) ==
    /\ r.relative_path # <<>>
    /\ r.relative_path[1] # "/"
    /\ r.relative_path[Len(r.relative_path)] # "/"
    /\ r.base_path_id > 0
    /\ r.width = None \/ r.width[1] > 0
    /\ r.height = None \/ r.height[1] > 0
    /\ r.size # NaN /\ r.size[1] > 0
    /\ r.mark = None \/ r.mark[1] \in 1..10
    /\ GraphemeCount(r.description) <= MAX_DESCRIPTION_LENGTH

\* C28: in every state reachable through Media.create and Media.update every
\* media row has a non-empty relative_path with no leading or trailing '/',
\* base_path_id > 0, width and height absent or > 0, size > 0, mark absent
\* or in 1..10 and a description of at most 300 graphemes; an update whose
\* merged record violates any of these is rejected and changes no row.
C28_RowsKeepAttributeConstraints ==
    /\ [](\A r \in media : ValidMediaRow(r))
    /\ [][(/\ Returns
           /\ call'.op = "Media.update"
           /\ \E r \in media :
                 r.id = call'.args[1] /\ ~ValidMediaRow(Patched(r, call'.args[2])))
          => (~result'.ok /\ media' = media)]_vars

\* C28 witness: an update that would set the size to NaN, which the
\* validation lets through, was refused by the store on a row that carries a
\* mark and a width set by earlier calls.
C28_Witness ==
    /\ call.op = "Media.update"
    /\ call.args[2].size = Some(NaN)
    /\ result = Err(<<"DatabaseError">>)
    /\ \E r \in media :
          r.id = call.args[1] /\ r.mark # None /\ r.width # None /\ ValidMediaRow(r)

----------------------------------------------------------------------------
(* Deleting a category that tags reference, under SpecTagList *)

\* C29: TagCategories.delete(id) on an existing category succeeds whether or
\* not tags reference it, removes only that category row and leaves every
\* tag row and every other table unchanged, so that tags whose category_id
\* names a deleted category are reachable.
C29_CategoryDeleteIgnoresTags ==
    [][(/\ Returns
        /\ call'.op = "TagCategories.delete"
        /\ \E k \in tag_categories : k.id = call'.args[1])
       => (/\ result' = Ok(Unit)
           /\ tag_categories' = {k \in tag_categories : k.id # call'.args[1]}
           /\ tag_categories' # tag_categories
           /\ <<base_paths, tags, media, media_tags>>' =
                  <<base_paths, tags, media, media_tags>>)]_vars

\* C29 witness: a category was deleted and a tag still names it, next to a
\* tag of the remaining category.
C29_Witness ==
    /\ call.op = "TagCategories.delete"
    /\ result = Ok(Unit)
    /\ ~\E k \in tag_categories : k.id = call.args[1]
    /\ \E t \in tags : t.category_id = call.args[1]
    /\ \E t \in tags : \E k \in tag_categories : k.id = t.category_id

----------------------------------------------------------------------------
(* Deleting a tag that media files carry, under SpecTagDelete *)

\* C30: Tags.delete(id) on an existing tag succeeds whether or not
\* association rows reference it, removes only that tag row and leaves every
\* association row unchanged; afterwards list_tags_for_media of a media file
\* that carried the tag succeeds without the tag although the association
\* row is still stored.
C30_TagDeleteIgnoresAssociations ==
    [][(/\ Returns
        /\ call'.op = "Tags.delete"
        /\ \E t \in tags : t.id = call'.args[1])
       => (/\ result' = Ok(Unit)
           /\ tags' = {t \in tags : t.id # call'.args[1]}
           /\ tags' # tags
           /\ <<base_paths, tag_categories, media, media_tags>>' =
                  <<base_paths, tag_categories, media, media_tags>>
           /\ \A mt \in media_tags :
                 (mt.tag_id = call'.args[1] /\ \E m \in media : m.id = mt.media_id)
                 => /\ mt \in media_tags'
                    /\ ListTagsForMedia(mt.media_id)'.ok
                    /\ ~AnyTagId(ListTagsForMedia(mt.media_id)'.val, call'.args[1]))]_vars

\* C30 witness: a tag was deleted while the media file carries it and
\* another tag; its association row is still stored and the media file's
\* tag list holds the other tag only.
C30_Witness ==
    /\ call.op = "Tags.delete"
    /\ result = Ok(Unit)
    /\ \E mt \in media_tags :
          /\ mt.tag_id = call.args[1]
          /\ ListTagsForMedia(mt.media_id).ok
          /\ Len(ListTagsForMedia(mt.media_id).val) = 1
          /\ ~AnyTagId(ListTagsForMedia(mt.media_id).val, call.args[1])

----------------------------------------------------------------------------
(* The life of a media file across the four registries, under SpecLifecycle *)

LifecycleBasePathsDelete == BasePathsDeleteBegin(1, 1)

LifecycleCategoriesDelete == TagCategoriesDeleteBegin(1, 1)

\* one media file that is created, tagged, untagged and deleted while base
\* paths, categories and tags are created and deleted around it
NextLifecycle ==
    \/ TaggingBasePath
    \/ LifecycleBasePathsDelete
    \/ LifecycleCategoriesDelete
    \/ SingleMediaCreate
    \/ AssignedMediaDelete
    \/ TaggingTagsCreate
    \/ AssignedTagsDelete
    \/ AssignedInsertTag
    \/ AssignedUntagMedia
    \/ BasePathsCreateInsert(1)
    \/ BasePathsDeleteFinish(1)
    \/ TagCategoriesDeleteFinish(1)
    \/ TagsCreateAlreadyExists(1)
    \/ TagsCreateInsert(1)
    \/ TagsDeleteFinish(1)
    \/ MediaCreateFirst(1)
    \/ MediaCreateInsert(1)
    \/ MediaDeleteFinish(1)
    \/ MediaInsertTagTagsGet(1)
    \/ MediaInsertTagFirst(1)
    \/ MediaInsertTagInsert(1)
    \/ MediaUntagMediaTagsGet(1)
    \/ MediaUntagMediaGet(1)
    \/ MediaUntagMediaLoadMediaTags(1)
    \/ MediaUntagMediaLoadTags(1)
    \/ MediaUntagMediaFinish(1)

SpecLifecycle == Init /\ [][NextLifecycle]_vars

\* C31: no media file is ever undeletable: in every state reachable by
\* sequential operations of the four registries, for every stored media file
\* m a sequence of untag_media calls followed by Media.delete(m) succeeds;
\* the sequence without any untag_media call does, also while m carries
\* associations and while a tag of m has been deleted: when the caller has no
\* call under way the checks of Media.delete(m) pass, and a delete whose
\* checks have passed returns Ok and removes the row.
C31_MediaAlwaysDeletable ==
    /\ inflight[1] = Idle
       => \A m \in media :
             ENABLED (/\ MediaDeleteBegin(1, m.id)
                      /\ inflight'[1] = Pending("Media.delete", <<m.id>>, [id |-> m.id]))
    /\ inflight[1].op = "Media.delete"
       => ENABLED (/\ MediaDeleteFinish(1)
                   /\ result' = Ok(Unit)
                   /\ media' = {m \in media : m.id # inflight[1].val.id})

\* C31 witness: a media file was deleted while one of its association rows
\* names a tag that Tags.delete has removed.
C31_Witness ==
    /\ call.op = "Media.delete"
    /\ result = Ok(Unit)
    /\ ~\E m \in media : m.id = call.args[1]
    /\ \E mt \in media_tags :
          /\ mt.media_id = call.args[1]
          /\ ~\E t \in tags : t.id = mt.tag_id

----------------------------------------------------------------------------
(* Queries over duplicated association rows, under SpecDuplicates *)

\* Media::create of "x", then of "y", under base path 1
DuplicatesMediaCreate ==
    /\ NextId(media) <= MaxMediaId
    /\ MediaCreateBegin(1, NewMedia(IF media = {} THEN <<"x">> ELSE <<"y">>, 1))

\* Tags::create of "t", then of "u", in category 1
DuplicatesTagsCreate ==
    /\ NextId(tags) <= MaxTagId
    /\ TagsCreateBegin(1, NewTag(IF tags = {} THEN <<"t">> ELSE <<"u">>, 1))

\* a caller starts insert_tag while the rows stored and the inserts pending
\* leave room for one more association row
DuplicatesInsertTagBegin ==
    /\ Cardinality(media_tags) + Cardinality({c \in Callers : inflight[c] # Idle})
           <= MaxMediaTagId
    /\ \E c \in Callers, m \in 1..MaxMediaId, t \in 1..MaxTagId :
          MediaInsertTagBegin(c, m, t)

DuplicatesInsertTagTagsGet == \E c \in Callers : MediaInsertTagTagsGet(c)

DuplicatesInsertTagFirst == \E c \in Callers : MediaInsertTagFirst(c)

\* the insert of a pending insert_tag, which is not run between the two
\* statements of a query
DuplicatesInsertTagInsert ==
    /\ \A d \in Callers : inflight[d].op # "Media.list_media_from_tags"
    /\ \E c \in Callers : MediaInsertTagInsert(c)

DuplicatesListMedia ==
    \E s \in {<<1>>, <<1, 2>>, <<2, 1, 2>>} : MediaListMediaFromTagsBegin(1, s)

\* two callers that tag media files, the same pair included, and queries
\* of caller 1 over the rows they leave
NextDuplicates ==
    \/ TaggingBasePath
    \/ DuplicatesMediaCreate
    \/ DuplicatesTagsCreate
    \/ DuplicatesInsertTagBegin
    \/ DuplicatesInsertTagTagsGet
    \/ DuplicatesInsertTagFirst
    \/ DuplicatesInsertTagInsert
    \/ DuplicatesListMedia
    \/ MediaListMediaFromTagsFinish(1)
    \/ BasePathsCreateInsert(1)
    \/ TagsCreateAlreadyExists(1)
    \/ TagsCreateInsert(1)
    \/ MediaCreateFirst(1)
    \/ MediaCreateInsert(1)

SpecDuplicates == Init /\ [][NextDuplicates]_vars

\* media row r has an association row with tag id t
Carries(r, t) == \E mt \in media_tags : mt.media_id = r.id /\ mt.tag_id = t

\* the association rows of the pair (m, t)
PairRows(m, t) == {mt \in media_tags : mt.media_id = m /\ mt.tag_id = t}

\* C32: also when concurrent insert_tag calls have left several association
\* rows for one (media_id, tag_id) pair, list_media_from_tags(S) returns a
\* media file only if it carries every distinct tag of S, returns every
\* such media file, and returns none of them twice.
C32_DuplicateRowsCountOnce ==
    call.op = "Media.list_media_from_tags"
    => /\ result.ok
       /\ \A i \in 1..Len(result.val) :
             \E r \in media :
                /\ LoadMediaFile(r) = result.val[i]
                /\ \A t \in Range(call.args[1]) : Carries(r, t)
       /\ \A r \in media :
             (\A t \in Range(call.args[1]) : Carries(r, t))
             => \E i \in 1..Len(result.val) : result.val[i] = LoadMediaFile(r)
       /\ \A i, j \in 1..Len(result.val) : i # j => result.val[i].id # result.val[j].id

\* C32 witness: a query for two tags returned the one media file that
\* carries both, and not the media file that has two association rows for
\* one of the tags and none for the other.
C32_Witness ==
    /\ call.op = "Media.list_media_from_tags"
    /\ Cardinality(Range(call.args[1])) = 2
    /\ result.ok
    /\ Len(result.val) = 1
    /\ \E r \in media :
          /\ LoadMediaFile(r) \notin Range(result.val)
          /\ \E t \in Range(call.args[1]) : Cardinality(PairRows(r.id, t)) = 2

----------------------------------------------------------------------------
(* Two callers that update one media file, under SpecPatchRace *)

\* patches that each set one field, so that two different ones are disjoint;
\* the last one fails validation
SingleFieldPatches ==
    {[NoUpdate EXCEPT !.width = Some(5)],
     [NoUpdate EXCEPT !.size = Some(F64(2))],
     [NoUpdate EXCEPT !.description = Some(<<"e">>)],
     [NoUpdate EXCEPT !.mark = Some(11)]}

PatchRaceBegin ==
    \E c \in Callers, id \in {1, MaxMediaId}, u \in SingleFieldPatches :
        MediaUpdateBegin(c, id, u)

PatchRaceFinish == \E c \in Callers : MediaUpdateFinish(c)

NextPatchRace ==
    \/ TaggingBasePath
    \/ SingleMediaCreate
    \/ PatchRaceBegin
    \/ PatchRaceFinish
    \/ BasePathsCreateInsert(1)
    \/ MediaCreateFirst(1)
    \/ MediaCreateInsert(1)

SpecPatchRace == Init /\ [][NextPatchRace]_vars

\* row r and row q agree on every field that patch p leaves unset
AgreeOutside(r, q, p) ==
    /\ r.id = q.id
    /\ r.relative_path = q.relative_path
    /\ r.base_path_id = q.base_path_id
    /\ r.media_type = q.media_type
    /\ p.width = None => r.width = q.width
    /\ p.height = None => r.height = q.height
    /\ p.size = None => r.size = q.size
    /\ p.mark = None => r.mark = q.mark
    /\ p.description = None => r.description = q.description

\* C33 (as claimed): when Media.update calls with patches that set disjoint
\* fields run concurrently on one media file and return success, no update
\* overwrites a field set by the other with the value it read earlier: the
\* write of an update changes only the fields that its own patch sets.
C33_UpdateKeepsOtherPatch ==
    [][\A c \in Callers :
          (inflight[c].op = "Media.update" /\ inflight'[c] = Idle)
          => /\ result' = Ok(Unit)
             /\ \A r \in media :
                   \E q \in media' : AgreeOutside(r, q, inflight[c].args[2])]_vars

====
